---- MODULE Spec2Model ----
(***************************************************************************)
(* Spark log analyzer: the log parsing engine (services/parser.py) and the *)
(* ingestion pipeline (api/v1/ingestion.py, services/ingestion.py).        *)
(*                                                                         *)
(* Text.  A line of text is a sequence of tokens.  A token is either one   *)
(* character that is not a word character (a blank, a tab, ':', '.', '(',  *)
(* ')', '/', '$', '"', '[', ']', '*') or a maximal run of word characters  *)
(* (\w+).                                                                  *)
(* Two adjacent word tokens therefore spell one longer word.              *)
(* The regular expressions                                                 *)
(* of the parser are operators on such lines; what they need to know about *)
(* the letters inside a word token (its case, its suffix, the trigger      *)
(* substrings it contains) is given by the lexicon below.  A string that   *)
(* Python builds with '\n'.join is the sequence of the joined lines (no    *)
(* line holds a newline).  None is <<>> for text and "None" for names.     *)
(***************************************************************************)
EXTENDS Integers, Sequences, FiniteSets, TLC

VARIABLES
    \* ---- LogParserService._parse_lines: one run of the generator
    lines,                    \* the argument: List[str]
    line_number,              \* lines consumed so far by the for loop
    current_entry,            \* Optional[ParsedLogEntry]: <<>> or <<entry>>
    stack_trace_lines,        \* List[str]
    collecting_stack_trace,   \* bool
    yielded,                  \* the entries yielded so far, in order
    parser_pc,                \* "loop", "done"; "off" when no run is modelled
    \* ---- LogParserService._detect_language: one call
    lang_index,               \* items of LANGUAGE_PATTERNS the for loop has taken
    scores,                   \* Dict[SparkLanguage, int], as its items in order
    detected_language,        \* the value returned, "None" before the return
    \* ---- LogParserService._detect_spark_mode: one call
    mode_index,               \* items of MODE_PATTERNS the for loop has passed
    spark_mode,               \* the value returned, "None" before the return
    \* ---- the ingestion pipeline
    clock,                    \* datetime.utcnow(), in seconds
    disk,                     \* the upload and watch directories: path -> blob
    log_files,                \* table log_files: id -> row (committed state)
    log_entries,              \* table log_entries: log_file_id -> rows in id order
    tasks,                    \* the background tasks added so far, with their progress
    batch,                    \* the upload_multiple_files request in flight
    deleting,                 \* the delete_log_file request in flight: <<>> or <<request>>
    \* ---- create_analysis (api/v1/analysis.py)
    analysis,                 \* the create_analysis request in flight, or the last one
    log_analyses,             \* table log_analyses: log_file_id -> rows in id order
    provider_calls            \* calls of provider.generate so far

parser_vars ==
    <<lines, line_number, current_entry, stack_trace_lines, collecting_stack_trace,
      yielded, parser_pc>>

detect_vars == <<lang_index, scores, detected_language, mode_index, spark_mode>>

analysis_vars == <<analysis, log_analyses, provider_calls>>

pipeline_vars ==
    <<clock, disk, log_files, log_entries, tasks, batch, deleting, analysis_vars>>

vars ==
    <<lines, line_number, current_entry, stack_trace_lines, collecting_stack_trace,
      yielded, parser_pc, lang_index, scores, detected_language, mode_index, spark_mode,
      clock, disk, log_files, log_entries, tasks, batch, deleting, analysis,
      log_analyses, provider_calls>>

-----------------------------------------------------------------------------
(* Bounds of the model *)

\* lines of an input of the parser
MaxLines == 3

\* LogFile rows ever created
MaxFiles == 2

\* seconds that pass
MaxClock == 1

\* files of one batch upload
MaxBatch == 2

\* parsing jobs scheduled while files are deleted and their ids used again
MaxTasks == 2

\* create_analysis requests
MaxAnalyses == 2

-----------------------------------------------------------------------------
(* Lexicon: the characters of the tokens *)

Whitespace == {" ", "\t"}

NonWordChars == Whitespace \cup {":", ".", "(", ")", "/", "$", "?", "\"", "[", "]", "*"}

\* \w+ : every token that is not a single non-word character
IsWord(t) == t \notin NonWordChars

\* [\w.] and [\w.$]
IsWordDot(t) == IsWord(t) \/ t = "."

IsWordDotDollar(t) == IsWord(t) \/ t \in {".", "$"}

\* str.upper(), exact on every token that spells a level word in some case;
\* no other token of the lexicon spells one, whatever its case
upper(t) ==
    CASE t = "warning" -> "WARNING"
      [] t = "Error"   -> "ERROR"
      [] t = "severe"  -> "SEVERE"
      [] OTHER         -> t

\* the word a token is equal to under re.IGNORECASE, as far as the level words
\* need it.  The token "U0130NFO" stands for the word NFO after the letter U+0130
\* (capital I with a dot above): IGNORECASE takes that letter for I and i, while
\* str.upper() leaves it as it is.
IgnoreCase(t) ==
    CASE t = "U0130NFO" -> "INFO"
      [] OTHER          -> upper(t)

\* which of the suffixes Exception / Error a word token ends with (case-sensitive)
SuffixOf(t) ==
    CASE t \in {"Exception", "IOException", "SparkException"} -> "Exception"
      [] t \in {"Error", "OutOfMemoryError"}                   -> "Error"
      [] OTHER                                                 -> "None"

\* the token has at least one character before that suffix
HasStem(t) == t \notin {"Exception", "Error"}

\* str.lower(): of a token, as far as the trigger phrases need it, and of a suffix
lower(t) ==
    CASE t = "Java" -> "java"
      [] t = "GC"   -> "gc"
      [] t = ".LOG" -> ".log"
      [] t = "SparkSQL" -> "sparksql"
      [] t = "SELECT" -> "select"
      [] t = "sparkR" -> "sparkr"
      [] OTHER      -> t

\* the one-word triggers of ERROR_CATEGORIES found inside the lower-cased token
Triggers(t) ==
    CASE t = "OutOfMemoryError"        -> {"outofmemory"}
      [] t = "OOM"                     -> {"oom"}
      [] t = "FetchFailed"             -> {"fetchfailed", "failed"}
      [] t = "shuffle"                 -> {"shuffle"}
      [] t = "timeout"                 -> {"timeout"}
      [] t = "refused"                 -> {"refused"}
      [] t = "connection"              -> {"connection"}
      [] t = "NotSerializableException" -> {"serializ", "notserializable"}
      [] t = "config"                  -> {"config"}
      [] t = "permission"              -> {"permission"}
      [] t = "disk"                    -> {"disk"}
      [] t \in {"Executor", "executor"} -> {"executor"}
      [] t = "lost"                    -> {"lost"}
      [] t = "failed"                  -> {"failed"}
      [] t = "heartbeat"               -> {"heartbeat"}
      [] OTHER                         -> {}

\* the fragments of LANGUAGE_PATTERNS found somewhere inside the lower-cased token
Fragments(t) ==
    CASE lower(t) = "pyspark"  -> {"pyspark"}
      [] lower(t) = "python"   -> {"python"}
      [] lower(t) = "sparksql" -> {"sparksql"}
      [] lower(t) = "select"   -> {"select"}
      [] lower(t) = "sparkr"   -> {"sparkr"}
      [] OTHER                 -> {}

\* the lower-cased token ends with s, for the words a pattern wants before a dot or
\* a blank
EndsWith(t, s) ==
    CASE s = "scala"  -> lower(t) = "scala"
      [] s = "java"   -> lower(t) = "java"
      [] s = "spark"  -> lower(t) \in {"spark", "pyspark"}
      [] s = "create" -> FALSE
      [] OTHER        -> lower(t) = s

\* the token ends with s, letter case as it is
EndsWithExactly(t, s) == t = s \/ (s = "at" /\ t = "heartbeat")

\* the token begins with s (lower-cased when ic)
StartsWith(t, s, ic) ==
    CASE s = "sql"   -> ic /\ lower(t) = "sql"
      [] s = "spark" -> IF ic THEN lower(t) \in {"spark", "sparkr", "sparksql"}
                        ELSE t \in {"spark", "sparkR"}
      [] s = "table" -> FALSE
      [] OTHER       -> (IF ic THEN lower(t) ELSE t) = s

\* the fragments of MODE_PATTERNS found somewhere inside the lower-cased token
ModeFragments(t) ==
    CASE t \in {"yarn", "YARN", "YarnAllocator"} -> {"yarn"}
      [] t = "ApplicationMaster"                 -> {"applicationmaster", "master"}
      [] t = "container_01"                      -> {"container_"}
      [] t \in {"kubernetes", "Kubernetes"}      -> {"kubernetes"}
      [] t = "k8s"                               -> {"k8s"}
      [] t = "pod_driver"                        -> {"pod_"}
      [] t \in {"master", "Master"}              -> {"master"}
      [] t = "standalone"                        -> {"standalone"}
      [] OTHER                                   -> {}

\* \d+ : the token is a run of digits
IsDigits(t) == t \in {"0", "1", "2", "5", "01", "10", "131", "289", "7077"}

-----------------------------------------------------------------------------
(* Sequences *)

None == <<>>

Min(S) == CHOOSE x \in S : \A y \in S : x <= y

Max(S) == CHOOSE x \in S : \A y \in S : x >= y

\* an rstrip that removes nothing
rstrip_Nothing(line) == line

\* str.rstrip(): trailing whitespace removed
RECURSIVE rstrip(_)
rstrip(line) ==
    IF line = <<>> THEN <<>>
    ELSE IF line[Len(line)] \in Whitespace
         THEN rstrip(SubSeq(line, 1, Len(line) - 1))
         ELSE line

\* str.startswith('\t')
startswith_tab(line) == line # <<>> /\ line[1] = "\t"

-----------------------------------------------------------------------------
(* The compiled patterns of LogParserService *)

LevelWords == {"DEBUG", "INFO", "WARN", "WARNING", "ERROR", "FATAL", "SEVERE"}

\* \b(DEBUG|INFO|WARN|WARNING|ERROR|FATAL|SEVERE)\b with re.IGNORECASE:
\* the positions where a whole word is a level word
LevelHits(line) ==
    {i \in 1..Len(line) :
        /\ IgnoreCase(line[i]) \in LevelWords
        /\ (i = 1 \/ ~IsWord(line[i - 1]))
        /\ (i = Len(line) \/ ~IsWord(line[i + 1]))}

\* LOG_LEVEL_PATTERN.search(line): the position of the leftmost match, 0 for no match
LOG_LEVEL_PATTERN(line) ==
    IF LevelHits(line) = {} THEN 0 ELSE Min(LevelHits(line))

\* STACK_TRACE_PATTERN.match(line):  ^\s+at\s+[\w.$]+\(.*\)$
STACK_TRACE_PATTERN(line) ==
    \E a \in 2..Len(line) :
        /\ \A k \in 1..(a - 1) : line[k] \in Whitespace
        /\ line[a] = "at"
        /\ \E b \in (a + 2)..Len(line) :
              /\ \A k \in (a + 1)..(b - 1) : line[k] \in Whitespace
              /\ \E p \in (b + 1)..(Len(line) - 1) :
                    /\ \A k \in b..(p - 1) : IsWordDotDollar(line[k])
                    /\ line[p] = "("
                    /\ line[Len(line)] = ")"

\* the first token of the maximal [\w.] run that ends at position e
RunStart(line, e) ==
    Min({s \in 1..e : \A k \in s..e : IsWordDot(line[k])})

\* ([\w.]+<suffix>):\s*(.+)  -- the end positions e of group(1): the run ends with
\* the suffix and has a character before it, ':' follows, and something follows ':'
ColonHits(line, suffix) ==
    {e \in 1..Len(line) :
        /\ SuffixOf(line[e]) = suffix
        /\ (HasStem(line[e]) \/ (e > 1 /\ IsWordDot(line[e - 1])))
        /\ e + 2 <= Len(line)
        /\ line[e + 1] = ":"}

ColonGroup(line, suffix) ==
    IF ColonHits(line, suffix) = {} THEN None
    ELSE LET e == Min(ColonHits(line, suffix))
         IN  SubSeq(line, RunStart(line, e), e)

\* the end of the maximal [\w.] run that starts at position r
RunEnd(line, r) ==
    Max({e \in r..Len(line) : \A k \in r..e : IsWordDot(line[k])})

\* Caused by:\s*([\w.]+(?:Exception|Error))  -- group(1) when "Caused by:" starts at
\* position c: the longest prefix of the run after it that ends with a suffix
CausedByGroup(line, c) ==
    IF ~(c + 3 <= Len(line) /\ line[c] = "Caused" /\ line[c + 1] = " "
            /\ line[c + 2] = "by" /\ line[c + 3] = ":")
    THEN None
    ELSE LET after == {r \in (c + 4)..Len(line) :
                          /\ \A k \in (c + 4)..(r - 1) : line[k] \in Whitespace
                          /\ IsWordDot(line[r])}
         IN  IF after = {} THEN None
             ELSE LET r    == Min(after)
                      ends == {e \in r..RunEnd(line, r) :
                                  /\ SuffixOf(line[e]) # "None"
                                  /\ (HasStem(line[e]) \/ e > r)}
                  IN  IF ends = {} THEN None ELSE SubSeq(line, r, Max(ends))

CausedByHits(line) == {c \in 1..Len(line) : CausedByGroup(line, c) # None}

\* for pattern in EXCEPTION_PATTERNS: pattern.search(line); the first pattern that
\* matches gives exc_match.group(1); None when none matches
EXCEPTION_PATTERNS(line) ==
    IF ColonGroup(line, "Exception") # None THEN ColonGroup(line, "Exception")
    ELSE IF ColonGroup(line, "Error") # None THEN ColonGroup(line, "Error")
    ELSE IF CausedByHits(line) # {} THEN CausedByGroup(line, Min(CausedByHits(line)))
    ELSE None

\* a one-word trigger occurs somewhere in the line
HasTrigger(line, key) == \E i \in 1..Len(line) : key \in Triggers(line[i])

\* a two-word trigger "a b" occurs somewhere in the line
HasPhrase(line, a, b) ==
    \E i \in 1..(Len(line) - 2) :
        lower(line[i]) = a /\ line[i + 1] = " " /\ lower(line[i + 2]) = b

\* executor.*<word>
HasExecutorThen(line, key) ==
    \E i, j \in 1..Len(line) :
        i < j /\ "executor" \in Triggers(line[i]) /\ key \in Triggers(line[j])

\* a dict that has executor before the other categories
CategoryOrder_ExecutorFirst ==
    <<"executor", "storage", "permission", "configuration", "serialization", "network",
      "shuffle", "memory">>

\* ERROR_CATEGORIES, in the order of the dict
CategoryOrder ==
    <<"memory", "shuffle", "network", "serialization", "configuration",
      "permission", "storage", "executor">>

\* any(p.search(line) for p in ERROR_CATEGORIES[category])
ERROR_CATEGORIES(category, line) ==
    CASE category = "memory" ->
            \/ HasTrigger(line, "outofmemory") \/ HasTrigger(line, "oom")
            \/ HasPhrase(line, "heap", "space") \/ HasPhrase(line, "gc", "overhead")
      [] category = "shuffle" ->
            HasTrigger(line, "shuffle") \/ HasTrigger(line, "fetchfailed")
      [] category = "network" ->
            \/ HasTrigger(line, "connection") \/ HasTrigger(line, "timeout")
            \/ HasTrigger(line, "refused")
      [] category = "serialization" ->
            HasTrigger(line, "serializ") \/ HasTrigger(line, "notserializable")
      [] category = "configuration" -> HasTrigger(line, "config")
      [] category = "permission" ->
            HasTrigger(line, "permission") \/ HasPhrase(line, "access", "denied")
      [] category = "storage" -> HasTrigger(line, "disk")
      [] category = "executor" ->
            \/ HasExecutorThen(line, "lost") \/ HasExecutorThen(line, "failed")
            \/ HasTrigger(line, "heartbeat")
      [] OTHER -> FALSE

\* LogParserService._categorize_error
_categorize_error(line) ==
    LET hits == {k \in 1..Len(CategoryOrder) : ERROR_CATEGORIES(CategoryOrder[k], line)}
    IN  IF hits = {} THEN "None" ELSE CategoryOrder[Min(hits)]

-----------------------------------------------------------------------------
(* LogParserService._parse_single_line (timestamp, component and executor_id  *)
(* are extracted independently of the fields below and are left out)       *)

\* the values of the enumeration LogLevel
LogLevel == {"DEBUG", "INFO", "WARN", "ERROR", "FATAL"}

\* level_str after .upper() and the WARNING / SEVERE normalisation
level_str(line) ==
    LET upper_str == upper(line[LOG_LEVEL_PATTERN(line)])
    IN  CASE upper_str = "WARNING" -> "WARN"
          [] upper_str = "SEVERE"  -> "FATAL"
          [] OTHER                 -> upper_str

\* entry.level: LogLevel(level_str) raises ValueError for a string that is no
\* member, the except clause passes, and the level stays None
LevelOf(line) ==
    IF LOG_LEVEL_PATTERN(line) = 0 THEN "None"
    ELSE IF level_str(line) \in LogLevel THEN level_str(line)
    ELSE "None"

\* a parser that categorizes every entry
_parse_single_line_AlwaysCategorize(n, line) ==
    LET level    == LevelOf(line)
        exc      == EXCEPTION_PATTERNS(line)
        is_error == level \in {"ERROR", "FATAL"} \/ exc # None
        is_warn  == level = "WARN"
    IN  [line_number     |-> n,
         raw_line        |-> line,
         message         |-> <<line>>,
         level           |-> level,
         has_stack_trace |-> FALSE,
         stack_trace     |-> None,
         exception_type  |-> exc,
         category        |-> _categorize_error(line),
         is_error        |-> is_error,
         is_warning      |-> is_warn]

_parse_single_line(n, line) ==
    LET level    == LevelOf(line)
        exc      == EXCEPTION_PATTERNS(line)
        is_error == level \in {"ERROR", "FATAL"} \/ exc # None
        is_warn  == level = "WARN"
    IN  [line_number     |-> n,
         raw_line        |-> line,
         message         |-> <<line>>,
         level           |-> level,
         has_stack_trace |-> FALSE,
         stack_trace     |-> None,
         exception_type  |-> exc,
         category        |-> IF is_error \/ is_warn THEN _categorize_error(line)
                             ELSE "None",
         is_error        |-> is_error,
         is_warning      |-> is_warn]

-----------------------------------------------------------------------------
(* Language detection.  The content is the sequence of its lines; no pattern *)
(* of LANGUAGE_PATTERNS matches across a line break.                          *)

\* token i of the line, "" past its end
At(line, i) == IF i \in DOMAIN line THEN line[i] ELSE ""

\* a dot at i - 1 and the word w, in any letter case, as the token at i: \.w\b
DotWord(line, i, w) == At(line, i - 1) = "." /\ IsWord(At(line, i)) /\ lower(line[i]) = w

\* a word that ends with w, in any letter case, at i and a dot at i + 1: w\.
WordDot(line, i, w) == IsWord(At(line, i)) /\ EndsWith(line[i], w) /\ At(line, i + 1) = "."

\* 'at w\.', letter case as it is
AtWordDot(line, i, w) ==
    /\ EndsWithExactly(At(line, i), "at")
    /\ At(line, i + 1) = " "
    /\ At(line, i + 2) = w
    /\ At(line, i + 3) = "."

\* the tokens of the line from i on spell the phrase
PhraseAt(line, i, phrase) == \A k \in DOMAIN phrase : At(line, i + k) = phrase[k]

\* LANGUAGE_PATTERNS[lang]: for every pattern of the language, in the order of the
\* list, whether pattern.search finds it in the line
LANGUAGE_PATTERNS(lang, line) ==
    LET I == DOMAIN line
    IN  CASE lang = "python" ->
               <<\E i \in I : \/ Fragments(line[i]) \cap {"pyspark", "python"} # {}
                              \/ DotWord(line, i, "py"),
                 \E i \in I : /\ EndsWithExactly(line[i], "Traceback")
                              /\ PhraseAt(line, i, <<" ", "(", "most", " ", "recent", " ",
                                                     "call", " ", "last", ")">>),
                 \E i \in I : /\ EndsWithExactly(line[i], "File")
                              /\ PhraseAt(line, i, <<" ", "\"">>)
                              /\ \E j \in I : /\ j >= i + 3
                                              /\ PhraseAt(line, j - 1, <<".", "py", "\"">>)>>
          [] lang = "scala" ->
               <<\E i \in I : WordDot(line, i, "scala") \/ DotWord(line, i, "scala"),
                 \E i \in I : AtWordDot(line, i, "scala")>>
          [] lang = "java" ->
               <<\E i \in I : WordDot(line, i, "java") \/ DotWord(line, i, "java"),
                 \E i \in I : AtWordDot(line, i, "java"),
                 \E i \in I : /\ AtWordDot(line, i, "org")
                              /\ PhraseAt(line, i + 3, <<"apache", ".">>)
                              /\ StartsWith(At(line, i + 6), "spark", FALSE)>>
          [] lang = "sql" ->
               <<\E i \in I : \/ "sparksql" \in Fragments(line[i])
                              \/ /\ WordDot(line, i, "spark")
                                 /\ StartsWith(At(line, i + 2), "sql", TRUE),
                 \E i \in I : \/ Fragments(line[i]) \cap {"select", "insert", "update"} # {}
                              \/ /\ EndsWith(line[i], "create")
                                 /\ At(line, i + 1) = " "
                                 /\ StartsWith(At(line, i + 2), "table", TRUE)>>
          [] lang = "r" ->
               <<\E i \in I : "sparkr" \in Fragments(line[i]) \/ DotWord(line, i, "r")>>

\* LANGUAGE_PATTERNS.items(): the languages in the order of the dict
LanguageOrder == <<"python", "scala", "java", "sql", "r">>

\* score = sum(1 for p in patterns if p.search(content))
score(lang, content) ==
    Cardinality({k \in DOMAIN LANGUAGE_PATTERNS(lang, <<>>) :
                    \E n \in DOMAIN content : LANGUAGE_PATTERNS(lang, content[n])[k]})

\* if score > 0: scores[lang] = score.  The dict is the sequence of its items in
\* insertion order.
put_score(dict, lang, content) ==
    IF score(lang, content) > 0
    THEN Append(dict, [lang |-> lang, score |-> score(lang, content)])
    ELSE dict

\* a max that keeps the last of the keys with the highest score
max_key_Last(dict) ==
    IF dict = <<>> THEN "unknown"
    ELSE dict[Max({i \in DOMAIN dict :
                      \A j \in DOMAIN dict : dict[j].score <= dict[i].score})].lang

\* max(scores.keys(), key=lambda k: scores[k]): the first key, in the order of the
\* dict, whose score no other key exceeds; SparkLanguage.UNKNOWN for the empty dict
max_key(dict) ==
    IF dict = <<>> THEN "unknown"
    ELSE dict[Min({i \in DOMAIN dict :
                      \A j \in DOMAIN dict : dict[j].score <= dict[i].score})].lang

RECURSIVE scores_from(_, _, _)
scores_from(dict, k, content) ==
    IF k > Len(LanguageOrder) THEN dict
    ELSE scores_from(put_score(dict, LanguageOrder[k], content), k + 1, content)

\* LogParserService._detect_language
_detect_language(content) == max_key(scores_from(<<>>, 1, content))

\* scores: Dict[SparkLanguage, int] = {}
DetectStart ==
    /\ lang_index = 0
    /\ scores = <<>>
    /\ detected_language = "None"
    /\ mode_index = 0
    /\ spark_mode = "None"

-----------------------------------------------------------------------------
(* Mode detection.  No pattern of MODE_PATTERNS matches across a line break. *)

\* MODE_PATTERNS[mode]: whether the one pattern of the mode, compiled with
\* re.IGNORECASE, is found by pattern.search in the line
MODE_PATTERNS(mode, line) ==
    LET I == DOMAIN line
    IN  CASE mode = "yarn" ->
               \E i \in I : ModeFragments(line[i]) \cap
                                 {"yarn", "applicationmaster", "container_"} # {}
          [] mode = "kubernetes" ->
               \E i \in I : ModeFragments(line[i]) \cap {"kubernetes", "k8s", "pod_"} # {}
          [] mode = "standalone" ->
               \/ \E i \in I : /\ IsWord(line[i]) /\ EndsWith(line[i], "spark")
                               /\ PhraseAt(line, i, <<":", "/", "/">>)
               \/ \E i, j \in I : /\ i < j
                                  /\ "master" \in ModeFragments(line[i])
                                  /\ "standalone" \in ModeFragments(line[j])
          [] mode = "local" ->
               \E i \in I :
                   /\ IsWord(line[i]) /\ EndsWith(line[i], "local")
                   /\ At(line, i + 1) = "["
                   /\ \E d, a \in 0..1 :
                          /\ d = 1 => IsDigits(At(line, i + 2))
                          /\ a = 1 => At(line, i + 2 + d) = "*"
                          /\ At(line, i + 2 + d + a) = "]"

\* a dict in alphabetical order
ModeOrder_Alphabetical == <<"kubernetes", "local", "standalone", "yarn">>

\* MODE_PATTERNS.items(): the modes in the order of the dict
ModeOrder == <<"yarn", "kubernetes", "standalone", "local">>

\* any(p.search(content) for p in patterns)
any_mode_pattern(mode, content) == \E n \in DOMAIN content : MODE_PATTERNS(mode, content[n])

\* LogParserService._detect_spark_mode
_detect_spark_mode(content) ==
    LET hits == {k \in DOMAIN ModeOrder : any_mode_pattern(ModeOrder[k], content)}
    IN  IF hits = {} THEN "unknown" ELSE ModeOrder[Min(hits)]

-----------------------------------------------------------------------------
(* LogParserService._parse_lines: the state of the generator is             *)
(* [current_entry, stack_trace_lines, collecting_stack_trace, yielded]      *)

ParserStart ==
    [current_entry |-> <<>>, stack_trace_lines |-> <<>>,
     collecting_stack_trace |-> FALSE, yielded |-> <<>>]

\* WithStackTrace that wants two lines before it speaks of a stack trace
WithStackTrace_TwoLines(entry, stl) ==
    IF Len(stl) >= 2
    THEN [entry EXCEPT !.has_stack_trace = TRUE, !.stack_trace = stl]
    ELSE entry

\* if stack_trace_lines: has_stack_trace = True; stack_trace = '\n'.join(...)
WithStackTrace(entry, stl) ==
    IF stl # <<>>
    THEN [entry EXCEPT !.has_stack_trace = TRUE, !.stack_trace = stl]
    ELSE entry

\* the branches of the loop body, on the stripped line
IsBlankLine(line) == rstrip(line) = <<>>

\* IsStackLine with the level test taken first: a line with a level token is
\* never taken into the stack trace
IsStackLine_LevelFirst(st, line) ==
    /\ ~IsBlankLine(line)
    /\ LOG_LEVEL_PATTERN(rstrip(line)) = 0
    /\ \/ STACK_TRACE_PATTERN(rstrip(line))
       \/ (st.collecting_stack_trace /\ startswith_tab(rstrip(line)))

\* IsStackLine that takes every line without a level token while a stack trace is
\* being collected
IsStackLine_AnyForm(st, line) ==
    /\ ~IsBlankLine(line)
    /\ \/ STACK_TRACE_PATTERN(rstrip(line))
       \/ (st.collecting_stack_trace /\ LOG_LEVEL_PATTERN(rstrip(line)) = 0)

IsStackLine(st, line) ==
    /\ ~IsBlankLine(line)
    /\ \/ STACK_TRACE_PATTERN(rstrip(line))
       \/ (st.collecting_stack_trace /\ startswith_tab(rstrip(line)))

IsNewEntry(st, line) ==
    /\ ~IsBlankLine(line)
    /\ ~IsStackLine(st, line)
    /\ LOG_LEVEL_PATTERN(rstrip(line)) # 0

IsContinuation(st, line) ==
    /\ ~IsBlankLine(line)
    /\ ~IsStackLine(st, line)
    /\ LOG_LEVEL_PATTERN(rstrip(line)) = 0
    /\ st.current_entry # <<>>

\* Continue that appends the line to the message twice
Continue_Twice(entry, line) ==
    [entry EXCEPT
        !.message = Append(Append(@, line), line),
        !.exception_type = IF @ = None THEN EXCEPTION_PATTERNS(line) ELSE @]

\* Continue that marks the entry as an error whenever a line is appended to it
Continue_MarksError(entry, line) ==
    [entry EXCEPT
        !.message = Append(@, line),
        !.exception_type = IF @ = None THEN EXCEPTION_PATTERNS(line) ELSE @,
        !.is_error = TRUE]

\* Continue that lets every line with an exception overwrite exception_type
Continue_LastMatch(entry, line) ==
    [entry EXCEPT
        !.message = Append(@, line),
        !.exception_type = IF EXCEPTION_PATTERNS(line) # None
                           THEN EXCEPTION_PATTERNS(line) ELSE @]

\* Continue without the scan for an exception in the continuation line
Continue_NoExceptionScan(entry, line) == [entry EXCEPT !.message = Append(@, line)]

\* elif current_entry: message += '\n' + line; exception_type set if not yet set
Continue(entry, line) ==
    [entry EXCEPT
        !.message = Append(@, line),
        !.exception_type = IF @ = None THEN EXCEPTION_PATTERNS(line) ELSE @]

\* ParseStep that empties the stack buffer only when it yields an entry: the lines
\* collected before the first entry stay in the buffer
ParseStep_KeepsBuffer(st, n, rawline) ==
    LET line == rstrip(rawline)
    IN  IF IsBlankLine(rawline) THEN st
        ELSE IF IsStackLine(st, rawline)
        THEN [st EXCEPT !.collecting_stack_trace = TRUE,
                        !.stack_trace_lines = Append(@, line)]
        ELSE IF IsNewEntry(st, rawline)
        THEN [current_entry |-> <<_parse_single_line(n, line)>>,
              stack_trace_lines |-> IF st.current_entry = <<>> THEN st.stack_trace_lines
                                    ELSE <<>>,
              collecting_stack_trace |-> FALSE,
              yielded |-> IF st.current_entry = <<>> THEN st.yielded
                          ELSE Append(st.yielded,
                                      WithStackTrace(st.current_entry[1],
                                                     st.stack_trace_lines))]
        ELSE IF IsContinuation(st, rawline)
        THEN [st EXCEPT !.current_entry = <<Continue(st.current_entry[1], line)>>]
        ELSE st

\* one iteration of the for loop on physical line n
ParseStep(st, n, rawline) ==
    LET line == rstrip(rawline)
    IN  IF IsBlankLine(rawline) THEN st
        ELSE IF IsStackLine(st, rawline)
        THEN [st EXCEPT !.collecting_stack_trace = TRUE,
                        !.stack_trace_lines = Append(@, line)]
        ELSE IF IsNewEntry(st, rawline)
        THEN [current_entry |-> <<_parse_single_line(n, line)>>,
              stack_trace_lines |-> <<>>,
              collecting_stack_trace |-> FALSE,
              yielded |-> IF st.current_entry = <<>> THEN st.yielded
                          ELSE Append(st.yielded,
                                      WithStackTrace(st.current_entry[1],
                                                     st.stack_trace_lines))]
        ELSE IF IsContinuation(st, rawline)
        THEN [st EXCEPT !.current_entry = <<Continue(st.current_entry[1], line)>>]
        ELSE st

\* ParseFinish that puts the final entry in front of the entries yielded before
ParseFinish_InFront(st) ==
    IF st.current_entry = <<>> THEN st
    ELSE [st EXCEPT !.yielded = <<WithStackTrace(st.current_entry[1],
                                                 st.stack_trace_lines)>> \o @]

\* after the loop: yield the final entry
ParseFinish(st) ==
    IF st.current_entry = <<>> THEN st
    ELSE [st EXCEPT !.yielded = Append(@, WithStackTrace(st.current_entry[1],
                                                         st.stack_trace_lines))]

\* list(self._parse_lines(lines))
RECURSIVE ParseFrom(_, _, _)
ParseFrom(st, ls, n) ==
    IF n > Len(ls) THEN ParseFinish(st).yielded
    ELSE ParseFrom(ParseStep(st, n, ls[n]), ls, n + 1)

_parse_lines(ls) == ParseFrom(ParserStart, ls, 1)

-----------------------------------------------------------------------------
(* Inputs of the parser: every list of at most MaxLines lines of LinePool,  *)
(* and the five lines of scenario (2)                                       *)

L_INFO == <<"INFO", " ", "Running">>

L_ERROR == <<"ERROR", " ", "Executor", ":", " ", "task", " ", "failed">>

L_WARN_EXC == <<"WARN", " ", "java", ".", "io", ".", "IOException", ":", " ", "timeout">>

L_OOM ==
    <<"java", ".", "lang", ".", "OutOfMemoryError", ":", " ", "Java", " ", "heap",
      " ", "space">>

L_FRAME ==
    <<"\t", "at", " ", "org", ".", "Task", ".", "run", "(", "Task", ".", "scala",
      ":", "131", ")">>

L_FRAME_LEVEL == <<"\t", "at", " ", "Log", ".", "write", "(", "ERROR", ")">>

L_TAB_WARN == <<"\t", "WARN", " ", "retry">>

L_CAUSED ==
    <<"Caused", " ", "by", ":", " ", "java", ".", "io", ".", "IOException", ":",
      " ", "refused">>

L_TEXT == <<"Traceback">>

L_BLANK == <<" ", "\t">>

\* a line with leading and trailing whitespace
L_PADDED == <<" ", "INFO", " ", "Stopped", " ", "\t">>

\* the space-indented last line of a Java stack trace
L_MORE == <<" ", " ", ".", ".", ".", " ", "12", " ", "more">>

\* a 'Caused by:' line indented with a tab, as the frames are
L_TAB_CAUSED == <<"\t">> \o L_CAUSED

\* lines with the triggers of two categories
L_OOM_EXECUTOR == <<"ERROR", " ", "executor", " ", "lost", ":", " ", "OOM">>

L_SHUFFLE_TIMEOUT == <<"WARN", " ", "shuffle", " ", "timeout">>

\* a line that is no error and no warning, with a memory trigger
L_INFO_OOM == <<"INFO", " ", "OOM">>

\* the level word INFO spelled with the letter U+0130
L_DOTTED_INFO == <<"U0130NFO", " ", "Running">>

LinePool ==
    {L_INFO, L_ERROR, L_WARN_EXC, L_OOM, L_FRAME, L_FRAME_LEVEL, L_TAB_WARN,
     L_CAUSED, L_TEXT, L_BLANK, L_PADDED, L_MORE, L_TAB_CAUSED, L_OOM_EXECUTOR,
     L_SHUFFLE_TIMEOUT, L_INFO_OOM, L_DOTTED_INFO}

S2_HEAD ==
    <<"24", "/", "01", "/", "28", " ", "10", ":", "31", ":", "02", " ", "ERROR", " ",
      "Executor", ":", " ", "Exception", " ", "in", " ", "task", " ", "0", ".", "0",
      " ", "in", " ", "stage", " ", "1", ".", "0">>

S2_FRAME1 ==
    <<"\t", "at", " ", "org", ".", "apache", ".", "spark", ".", "rdd", ".", "RDD",
      ".", "iterator", "(", "RDD", ".", "scala", ":", "289", ")">>

S2_FRAME2 ==
    <<"\t", "at", " ", "org", ".", "apache", ".", "spark", ".", "scheduler", ".",
      "Task", ".", "run", "(", "Task", ".", "scala", ":", "131", ")">>

S2_INFO ==
    <<"24", "/", "01", "/", "28", " ", "10", ":", "31", ":", "03", " ", "INFO", " ",
      "BlockManager", ":", " ", "Removing", " ", "RDD", " ", "5">>

Scenario2 == <<S2_HEAD, L_OOM, S2_FRAME1, S2_FRAME2, S2_INFO>>

SeqsUpTo(S, n) == UNION {[1..k -> S] : k \in 0..n}

ParserInputs == SeqsUpTo(LinePool, MaxLines) \cup {Scenario2}

-----------------------------------------------------------------------------
(* Settings (config/__init__.py) *)

max_upload_size_mb == 100

\* settings.supported_extensions.split(",")
supported_extensions_list == <<".log", ".txt", ".gz", ".zip">>

log_upload_dir == "uploads"

log_watch_dir == "watch"

\* max_size = settings.max_upload_size_mb * 1024 * 1024
max_size == max_upload_size_mb * 1024 * 1024

-----------------------------------------------------------------------------
(* File names and contents.  A file name is the sequence of its parts between *)
(* dots: "app.log.gz" is <<"app", "log", "gz">> and "" is <<"">>.  A blob is  *)
(* named; its bytes are known by their length, their container format, their  *)
(* decoded text and their SHA-256.                                             *)

FN_LOG == <<"app", "log">>

FN_GZ == <<"app", "log", "gz">>

FN_UPPER == <<"APP", "LOG">>

FN_EXE == <<"app", "exe">>

FN_EMPTY == <<"">>

Blobs == {"text", "gzip", "max", "over"}

\* the blobs that are the UTF-8 encoding of a str
TextBlobs == {"text", "max", "over"}

Format(b) == IF b = "gzip" THEN "gzip" ELSE "plain"

FileText == <<L_ERROR, L_OOM, L_FRAME, L_INFO>>

\* the decoded text, as content.splitlines() gives it
TextOf(b) ==
    CASE b \in {"text", "gzip"} -> FileText
      [] b = "max"              -> <<L_INFO>>
      [] b = "over"             -> <<L_WARN_EXC>>

\* bytes that are not text, decoded with errors='replace'
ReplacedText == <<<<"?", "?">>>>

\* len(content)
len(b) ==
    CASE b = "text" -> 120
      [] b = "gzip" -> 96
      [] b = "max"  -> max_size
      [] b = "over" -> max_size + 1

\* get_file_hash: hashlib.sha256(content).hexdigest(), as <<first 8 characters, rest>>
get_file_hash(b) ==
    CASE b = "text" -> <<"9f2c17aa", "text">>
      [] b = "gzip" -> <<"1f8b0800", "gzip">>
      [] b = "max"  -> <<"07d4e2b1", "max">>
      [] b = "over" -> <<"c45a90e3", "over">>

\* Path(name).suffix: from the last dot on, '' when there is no dot, when the name
\* ends with the dot, or when the only dot is the first character
suffix(name) ==
    LET n == Len(name)
    IN  IF n >= 2 /\ name[n] # "" /\ ~(n = 2 /\ name[1] = "")
        THEN "." \o name[n]
        ELSE ""

\* is_valid_extension
is_valid_extension(filename) ==
    \E i \in DOMAIN supported_extensions_list :
        lower(suffix(filename)) = supported_extensions_list[i]

\* upload_path = Path(settings.log_upload_dir) / f"{timestamp}_{file_hash[:8]}_{filename}"
UploadPath(now, file_hash, filename) ==
    [dir |-> log_upload_dir, prefix |-> <<now, file_hash[1]>>, name |-> filename]

\* a file of the watch directory
WatchPath(name) == [dir |-> log_watch_dir, prefix |-> <<>>, name |-> name]

\* Path(file_path).suffix: the stored prefix ends with '_', so a dot of the original
\* name is never the first character of the stored name
path_suffix(path) ==
    LET n == Len(path.name)
    IN  IF n >= 2 /\ path.name[n] # "" /\ ~(path.prefix = <<>> /\ n = 2 /\ path.name[1] = "")
        THEN "." \o path.name[n]
        ELSE ""

\* LogParserService._read_file followed by content.splitlines()
_read_file(d, path) ==
    IF path \notin DOMAIN d
    THEN [ok |-> FALSE, text |-> <<>>, error |-> "FileNotFoundError"]
    ELSE LET b == d[path]
         IN  IF path_suffix(path) = ".gz"
             THEN IF Format(b) = "gzip"
                  THEN [ok |-> TRUE, text |-> TextOf(b), error |-> "None"]
                  ELSE [ok |-> FALSE, text |-> <<>>, error |-> "BadGzipFile"]
             ELSE IF path_suffix(path) = ".zip"
             THEN IF Format(b) = "zip"
                  THEN [ok |-> TRUE, text |-> TextOf(b), error |-> "None"]
                  ELSE [ok |-> FALSE, text |-> <<>>, error |-> "BadZipFile"]
             ELSE IF Format(b) = "plain"
                  THEN [ok |-> TRUE, text |-> TextOf(b), error |-> "None"]
                  ELSE [ok |-> TRUE, text |-> ReplacedText, error |-> "None"]

-----------------------------------------------------------------------------
(* The tables *)

FileIds == 1..MaxFiles

\* the primary key the database gives the next row of a table
next_id(rows) == IF DOMAIN rows = {} THEN 1 ELSE Max(DOMAIN rows) + 1

\* LogFile(...): the columns the constructor sets, and the column defaults
LogFile(original_filename, file_path, file_size, file_hash, source) ==
    [original_filename |-> original_filename,
     file_path         |-> file_path,
     file_size         |-> file_size,
     file_hash         |-> file_hash,
     source            |-> source,
     is_processed      |-> FALSE,
     processed_at      |-> <<>>,
     error_message     |-> "None"]

\* background_tasks.add_task(parse_log_file_background, log_file.id, str(upload_path)),
\* with the session of the task: the objects added, the attributes set
Task(log_file_id, file_path, pc, prev) ==
    [log_file_id |-> log_file_id,
     file_path   |-> file_path,
     pc          |-> pc,
     prev        |-> prev,
     new         |-> <<>>,
     dirty       |-> FALSE,
     now         |-> 0,
     exc         |-> "None"]

\* a scheduler that runs every job twice: what at-most-once parsing excludes
add_task_Twice(ts, log_file_id, file_path, pc, prev) ==
    Append(Append(ts, Task(log_file_id, file_path, pc, prev)),
           Task(log_file_id, file_path, pc, prev))

add_task(ts, log_file_id, file_path, pc, prev) ==
    Append(ts, Task(log_file_id, file_path, pc, prev))

PipelineStart ==
    /\ clock = 0
    /\ disk = <<>>
    /\ log_files = <<>>
    /\ log_entries = [f \in FileIds |-> <<>>]
    /\ tasks = <<>>
    /\ batch = [phase |-> "idle", request |-> <<>>, files |-> <<>>,
                uploaded |-> <<>>, failed |-> <<>>, last |-> 0]
    /\ deleting = None
    /\ analysis = [log_file_id |-> 0, pc |-> "idle", status_code |-> 0, count |-> 0]
    /\ log_analyses = [f \in FileIds |-> <<>>]
    /\ provider_calls = 0

-----------------------------------------------------------------------------
(* One run of _parse_lines, an iteration of its loop per step *)

ParserState ==
    [current_entry |-> current_entry, stack_trace_lines |-> stack_trace_lines,
     collecting_stack_trace |-> collecting_stack_trace, yielded |-> yielded]

ParserInit ==
    /\ lines \in ParserInputs
    /\ line_number = 0
    /\ current_entry = ParserStart.current_entry
    /\ stack_trace_lines = ParserStart.stack_trace_lines
    /\ collecting_stack_trace = ParserStart.collecting_stack_trace
    /\ yielded = ParserStart.yielded
    /\ parser_pc = "loop"
    /\ DetectStart
    /\ PipelineStart

InLoop == parser_pc = "loop" /\ line_number < Len(lines)

LoopBody ==
    LET st == ParseStep(ParserState, line_number + 1, lines[line_number + 1])
    IN  /\ current_entry' = st.current_entry
        /\ stack_trace_lines' = st.stack_trace_lines
        /\ collecting_stack_trace' = st.collecting_stack_trace
        /\ yielded' = st.yielded
        /\ line_number' = line_number + 1
        /\ UNCHANGED <<lines, parser_pc>>
        /\ UNCHANGED <<detect_vars, pipeline_vars>>

\* if not line: continue
SkipBlank == InLoop /\ IsBlankLine(lines[line_number + 1]) /\ LoopBody

\* stack trace continuation
StackLine == InLoop /\ IsStackLine(ParserState, lines[line_number + 1]) /\ LoopBody

\* if level_match: yield the previous entry, start a new one
NewEntry == InLoop /\ IsNewEntry(ParserState, lines[line_number + 1]) /\ LoopBody

\* elif current_entry: continuation of the previous entry
Continuation ==
    InLoop /\ IsContinuation(ParserState, lines[line_number + 1]) /\ LoopBody

\* neither branch: the line is before the first entry and is dropped
Dropped ==
    /\ InLoop
    /\ ~IsBlankLine(lines[line_number + 1])
    /\ ~IsStackLine(ParserState, lines[line_number + 1])
    /\ ~IsNewEntry(ParserState, lines[line_number + 1])
    /\ ~IsContinuation(ParserState, lines[line_number + 1])
    /\ LoopBody

\* the loop is over: yield the final entry
Finish ==
    /\ parser_pc = "loop"
    /\ line_number = Len(lines)
    /\ yielded' = ParseFinish(ParserState).yielded
    /\ parser_pc' = "done"
    /\ UNCHANGED <<lines, line_number, current_entry, stack_trace_lines,
                   collecting_stack_trace>>
    /\ UNCHANGED <<detect_vars, pipeline_vars>>

ParserNext ==
    \/ SkipBlank
    \/ StackLine
    \/ NewEntry
    \/ Continuation
    \/ Dropped
    \/ Finish

ParserSpec == ParserInit /\ [][ParserNext]_vars

ParserDone == parser_pc = "done"

Entries == {yielded[k] : k \in 1..Len(yielded)}

-----------------------------------------------------------------------------
(* One call of _detect_language, an iteration of its loop per step.  The    *)
(* contents tried are the lists of at most MaxLines lines of DetectPool.    *)

D_PYFILE == <<"File", " ", "\"", "job", ".", "py", "\"">>

D_TRACEBACK ==
    <<"Traceback", " ", "(", "most", " ", "recent", " ", "call", " ", "last", ")">>

D_PYSPARK == <<"pyspark", " ", "shell">>

D_ATSCALA ==
    <<"\t", "at", " ", "scala", ".", "Option", ".", "get", "(", "Option", ".", "scala",
      ":", "5", ")">>

D_ATJAVA ==
    <<"\t", "at", " ", "java", ".", "util", ".", "List", ".", "get", "(", "List", ".",
      "java", ":", "10", ")">>

D_SQL == <<"spark", ".", "sql", " ", "SELECT">>

D_SPARKR == <<"sparkR", " ", "session">>

DetectPool ==
    {D_PYFILE, D_TRACEBACK, D_PYSPARK, D_ATSCALA, D_ATJAVA, S2_FRAME1, L_OOM, D_SQL,
     D_SPARKR, L_INFO}

DetectInputs == SeqsUpTo(DetectPool, MaxLines)

DetectInit ==
    /\ lines \in DetectInputs
    /\ parser_pc = "detect"
    /\ DetectStart
    /\ line_number = 0
    /\ current_entry = ParserStart.current_entry
    /\ stack_trace_lines = ParserStart.stack_trace_lines
    /\ collecting_stack_trace = ParserStart.collecting_stack_trace
    /\ yielded = ParserStart.yielded
    /\ PipelineStart

\* for lang, patterns in self.LANGUAGE_PATTERNS.items(): one language is scored
ScoreLanguage ==
    /\ parser_pc = "detect"
    /\ lang_index < Len(LanguageOrder)
    /\ scores' = put_score(scores, LanguageOrder[lang_index + 1], lines)
    /\ lang_index' = lang_index + 1
    /\ UNCHANGED <<detected_language, mode_index, spark_mode, parser_vars, pipeline_vars>>

\* if scores: return max(...); return SparkLanguage.UNKNOWN
ReturnLanguage ==
    /\ parser_pc = "detect"
    /\ lang_index = Len(LanguageOrder)
    /\ detected_language' = max_key(scores)
    /\ parser_pc' = "detected"
    /\ UNCHANGED <<lang_index, scores, mode_index, spark_mode, pipeline_vars>>
    /\ UNCHANGED <<lines, line_number, current_entry, stack_trace_lines,
                   collecting_stack_trace, yielded>>

DetectNext == ScoreLanguage \/ ReturnLanguage

DetectSpec == DetectInit /\ [][DetectNext]_vars

-----------------------------------------------------------------------------
(* One call of _detect_spark_mode, an iteration of its loop per step.  The  *)
(* contents tried are the lists of at most MaxLines lines of ModePool.      *)

M_YARN == <<"YarnAllocator", ":", " ", "Launching", " ", "container_01">>

M_AM == <<"INFO", " ", "ApplicationMaster", ":", " ", "standalone">>

M_K8S == <<"k8s", " ", "pod_driver">>

M_URL == <<"spark", ":", "/", "/", "host", ":", "7077">>

M_MASTER == <<"Master", " ", "is", " ", "standalone">>

M_REVERSED == <<"standalone", " ", "master">>

M_LOCAL == <<"local", "[", "2", "]">>

M_LOCALSTAR == <<"master", " ", "local", "[", "*", "]">>

M_LOCALNAME == <<"local", "[", "host", "]">>

ModePool ==
    {M_YARN, M_AM, M_K8S, M_URL, M_MASTER, M_REVERSED, M_LOCAL, M_LOCALSTAR, M_LOCALNAME,
     L_INFO}

ModeInputs == SeqsUpTo(ModePool, MaxLines)

ModeInit ==
    /\ lines \in ModeInputs
    /\ parser_pc = "mode"
    /\ DetectStart
    /\ line_number = 0
    /\ current_entry = ParserStart.current_entry
    /\ stack_trace_lines = ParserStart.stack_trace_lines
    /\ collecting_stack_trace = ParserStart.collecting_stack_trace
    /\ yielded = ParserStart.yielded
    /\ PipelineStart

\* for mode, patterns in self.MODE_PATTERNS.items(): no pattern of the mode matches
NextMode ==
    /\ parser_pc = "mode"
    /\ mode_index < Len(ModeOrder)
    /\ ~any_mode_pattern(ModeOrder[mode_index + 1], lines)
    /\ mode_index' = mode_index + 1
    /\ UNCHANGED <<lang_index, scores, detected_language, spark_mode>>
    /\ UNCHANGED <<parser_vars, pipeline_vars>>

\* if any(p.search(content) for p in patterns): return mode
ReturnMode ==
    /\ parser_pc = "mode"
    /\ mode_index < Len(ModeOrder)
    /\ any_mode_pattern(ModeOrder[mode_index + 1], lines)
    /\ spark_mode' = ModeOrder[mode_index + 1]
    /\ parser_pc' = "mode returned"
    /\ UNCHANGED <<lang_index, scores, detected_language, mode_index, pipeline_vars>>
    /\ UNCHANGED <<lines, line_number, current_entry, stack_trace_lines,
                   collecting_stack_trace, yielded>>

\* return SparkMode.UNKNOWN
ReturnUnknown ==
    /\ parser_pc = "mode"
    /\ mode_index = Len(ModeOrder)
    /\ spark_mode' = "unknown"
    /\ parser_pc' = "mode returned"
    /\ UNCHANGED <<lang_index, scores, detected_language, mode_index, pipeline_vars>>
    /\ UNCHANGED <<lines, line_number, current_entry, stack_trace_lines,
                   collecting_stack_trace, yielded>>

ModeNext == NextMode \/ ReturnMode \/ ReturnUnknown

ModeSpec == ModeInit /\ [][ModeNext]_vars

-----------------------------------------------------------------------------
(* Claims about mode detection, checked under ModeSpec *)

\* the pattern of the mode is found somewhere in the content
ModePresent(mode, content) == \E n \in DOMAIN content : MODE_PATTERNS(mode, content[n])

\* C21: mode detection returns the first mode, in the order yarn, kubernetes,
\* standalone, local, whose pattern matches somewhere in the content, whatever
\* matches for the modes after it, and unknown when no pattern matches.
C21_FirstModeInOrder ==
    parser_pc = "mode returned" =>
        /\ spark_mode = (IF ModePresent("yarn", lines) THEN "yarn"
                         ELSE IF ModePresent("kubernetes", lines) THEN "kubernetes"
                         ELSE IF ModePresent("standalone", lines) THEN "standalone"
                         ELSE IF ModePresent("local", lines) THEN "local"
                         ELSE "unknown")
        /\ spark_mode = _detect_spark_mode(lines)

\* yarn is returned for a content in which the patterns of kubernetes, standalone
\* and local match as well, on lines before the line of yarn
C21_Witness ==
    /\ parser_pc = "mode returned"
    /\ spark_mode = "yarn"
    /\ lines = <<M_K8S, M_LOCALSTAR, M_YARN>>
    /\ ModePresent("kubernetes", lines) /\ ModePresent("local", lines)

-----------------------------------------------------------------------------
(* Claims about language detection, checked under DetectSpec *)

\* the patterns of the l-th language that are present somewhere in the content
Present(l, content) ==
    {k \in DOMAIN LANGUAGE_PATTERNS(LanguageOrder[l], <<>>) :
        \E n \in DOMAIN content : LANGUAGE_PATTERNS(LanguageOrder[l], content[n])[k]}

Languages == DOMAIN LanguageOrder

\* C20: the score of a language is the number of its patterns that are present in
\* the content, however often they occur.  The language returned is unknown when
\* every score is zero; otherwise it has the highest score, and every language
\* before it in the order python, scala, java, sql, r has a lower score.
C20_LanguageByScore ==
    /\ \A n \in DOMAIN scores :
           \E l \in 1..lang_index :
               /\ scores[n].lang = LanguageOrder[l]
               /\ scores[n].score = Cardinality(Present(l, lines))
    /\ parser_pc = "detected" =>
           IF \A l \in Languages : Present(l, lines) = {}
           THEN detected_language = "unknown"
           ELSE \E l \in Languages :
                    /\ detected_language = LanguageOrder[l]
                    /\ Present(l, lines) # {}
                    /\ \A m \in Languages :
                           Cardinality(Present(m, lines)) <= Cardinality(Present(l, lines))
                    /\ \A m \in 1..(l - 1) :
                           Cardinality(Present(m, lines)) < Cardinality(Present(l, lines))

\* C20 witness: two languages tie at the top, the first of them is returned, and a
\* line with a pattern occurs twice in the content
C20_Witness ==
    /\ parser_pc = "detected"
    /\ \E l, m \in Languages :
           /\ l < m
           /\ detected_language = LanguageOrder[l]
           /\ Cardinality(Present(l, lines)) = Cardinality(Present(m, lines))
    /\ \E i, j \in DOMAIN lines :
           i < j /\ lines[i] = lines[j] /\ LANGUAGE_PATTERNS(detected_language, lines[i])[1]

-----------------------------------------------------------------------------
(* Claims about the parser, checked under ParserSpec *)

\* the lines of the input that contain a level token
LevelLines(ls) == {i \in 1..Len(ls) : LOG_LEVEL_PATTERN(ls[i]) # 0}

\* C1 as stated: for every input, the number of emitted entries equals the number
\* of lines that contain a level token.
C1_EntriesEqualLevelLines ==
    ParserDone => Len(yielded) = Cardinality(LevelLines(lines))

FrameAt(ls, i) == STACK_TRACE_PATTERN(rstrip(ls[i]))

TabAt(ls, i) == startswith_tab(rstrip(ls[i]))

\* a stack-frame line precedes line i, and every line with a level token between
\* the two is itself a stack-frame line or begins with a tab
TraceOpenAt(ls, i) ==
    \E j \in 1..(i - 1) :
        /\ FrameAt(ls, j)
        /\ \A k \in (j + 1)..(i - 1) :
              k \in LevelLines(ls) => (FrameAt(ls, k) \/ TabAt(ls, k))

\* the lines with a level token that are not taken into a stack trace
HeadLines(ls) ==
    {i \in LevelLines(ls) : ~FrameAt(ls, i) /\ ~(TabAt(ls, i) /\ TraceOpenAt(ls, i))}

\* C1 amended: at every point of the run the entries yielded plus the open entry
\* are as many as the lines read so far that contain a level token and are not
\* taken into a stack trace (they neither match the stack-frame pattern nor begin
\* with a tab while a stack trace is being collected); at the end the number of
\* emitted entries equals the number of such lines.
C1_EntriesEqualHeadLines ==
    parser_pc \in {"loop", "done"} =>
        Len(yielded) + (IF ParserDone THEN 0 ELSE Len(current_entry))
            = Cardinality({i \in HeadLines(lines) : i <= line_number})

\* C1 witness: a finished run in which a line with a level token went into a stack
\* trace, so that fewer entries than level lines were emitted
C1_Witness ==
    /\ ParserDone
    /\ Len(yielded) > 0
    /\ Len(yielded) < Cardinality(LevelLines(lines))

\* C2 as stated: no emitted entry has both is_error and is_warning.
C2_NotErrorAndWarning == \A e \in Entries : ~(e.is_error /\ e.is_warning)

\* C3 as stated: every emitted entry with an exception_type has is_error = true,
\* wherever in the entry the exception type was found.
C3_ExceptionTypeImpliesError ==
    \A e \in Entries : e.exception_type # None => e.is_error

OutOfMemoryErrorName == <<"java", ".", "lang", ".", "OutOfMemoryError">>

Scenario2Common ==
    /\ Len(yielded) = 2
    /\ yielded[1].level = "ERROR"
    /\ yielded[1].has_stack_trace
    /\ yielded[1].stack_trace = <<S2_FRAME1, S2_FRAME2>>
    /\ yielded[1].exception_type = OutOfMemoryErrorName
    /\ yielded[1].is_error
    /\ yielded[2].level = "INFO"
    /\ ~yielded[2].has_stack_trace
    /\ yielded[2].stack_trace = None

\* C10 as stated: scenario (2) yields two entries, the first an ERROR entry with
\* both frames as its stack trace, exception_type java.lang.OutOfMemoryError,
\* is_error and category memory, the second an INFO entry without a stack trace.
C10_Scenario2Memory ==
    (ParserDone /\ lines = Scenario2) =>
        Scenario2Common /\ yielded[1].category = "memory"

\* C10 amended: the same, except that the first entry has no category: the
\* category is computed from the HEAD line alone, which holds no trigger.
C10_Scenario2NoCategory ==
    (ParserDone /\ lines = Scenario2) =>
        Scenario2Common /\ yielded[1].category = "None"

\* C10 witness: the run on scenario (2) has finished
C10_Witness == ParserDone /\ lines = Scenario2 /\ Len(yielded) = 2


-----------------------------------------------------------------------------
\* the first line after line i that belongs to H, or the line after the last
NextIn(H, ls, i) == Min({j \in H : j > i} \cup {Len(ls) + 1})

\* the lines of H that are followed by a stack-frame line before the next line of H
FollowedByFrame(H, ls) ==
    {i \in H : \E j \in (i + 1)..(NextIn(H, ls, i) - 1) : FrameAt(ls, j)}

WithTrace == {k \in 1..Len(yielded) : yielded[k].has_stack_trace}

\* C11 as stated: the number of emitted entries with has_stack_trace equals the
\* number of HEAD lines, a HEAD line being any line with a level token, that are
\* followed by a stack-frame line before the next HEAD line or the end of input.
C11_TracesEqualLevelLinesWithFrame ==
    ParserDone =>
        Cardinality(WithTrace) = Cardinality(FollowedByFrame(LevelLines(lines), lines))

\* C11 amended: the number of emitted entries with has_stack_trace equals the number
\* of lines that start an entry (lines with a level token that are not taken into a
\* stack trace) and are followed by a line matching the stack-frame pattern before
\* the next line that starts an entry or the end of input.
C11_TracesEqualHeadLinesWithFrame ==
    ParserDone =>
        Cardinality(WithTrace) = Cardinality(FollowedByFrame(HeadLines(lines), lines))

\* C11 witness: a finished run with an entry that has a stack trace, in which a
\* line with a level token went into the stack trace
C11_Witness ==
    /\ ParserDone
    /\ WithTrace # {}
    /\ \E i \in LevelLines(lines) : i \notin HeadLines(lines)

-----------------------------------------------------------------------------
\* the entries emitted so far: those yielded and, while the loop runs, the open one
Emitted == IF ParserDone THEN yielded ELSE yielded \o current_entry

\* C17: entries are emitted in the order of the lines that start them.  The k-th
\* entry carries as line_number the 1-based physical number (blank lines counted)
\* of the k-th line that starts an entry, so line_number increases along the
\* emitted sequence.
C17_OrderedByHeadLine ==
    parser_pc \in {"loop", "done"} =>
        LET H == {i \in HeadLines(lines) : i <= line_number}
        IN  \A k \in DOMAIN Emitted :
                /\ Emitted[k].line_number \in H
                /\ Cardinality({i \in H : i < Emitted[k].line_number}) = k - 1
                /\ \A j \in DOMAIN Emitted :
                       j < k => Emitted[j].line_number < Emitted[k].line_number

\* C17 witness: two entries, the second one pushed down by a line that starts none
C17_Witness ==
    /\ ParserDone
    /\ Len(yielded) >= 2
    /\ yielded[2].line_number = 3
    /\ IsBlankLine(lines[1]) \/ IsBlankLine(lines[2])

-----------------------------------------------------------------------------
\* line without a trailing carriage return
WithoutCR(line) ==
    IF line # <<>> /\ line[Len(line)] = "\r" THEN SubSeq(line, 1, Len(line) - 1) ELSE line

\* C18 as stated: raw_line equals the physical line that starts the entry, but for
\* a removed trailing carriage return: leading whitespace, trailing spaces and
\* trailing tabs are kept.
C18_RawLineVerbatim ==
    \A e \in Entries : e.raw_line = WithoutCR(lines[e.line_number])

\* C18 amended: raw_line equals the physical line that starts the entry with all
\* its trailing whitespace removed: it is the longest prefix of the line that does
\* not end in whitespace, so leading whitespace is kept and trailing spaces and
\* tabs are not.
C18_RawLineStripped ==
    \A e \in Entries :
        LET line == lines[e.line_number]
        IN  /\ Len(e.raw_line) <= Len(line)
            /\ e.raw_line = SubSeq(line, 1, Len(e.raw_line))
            /\ e.raw_line # <<>>
            /\ e.raw_line[Len(e.raw_line)] \notin Whitespace
            /\ \A i \in (Len(e.raw_line) + 1)..Len(line) : line[i] \in Whitespace

\* C18 witness: an entry started by a line with leading and trailing whitespace
C18_Witness ==
    \E e \in Entries :
        /\ lines[e.line_number] = L_PADDED
        /\ e.raw_line = <<" ", "INFO", " ", "Stopped">>

-----------------------------------------------------------------------------
\* C19: every entry with is_error = true, emitted or still open, has level ERROR
\* or FATAL or has an exception_type.
C19_ErrorHasLevelOrException ==
    \A k \in DOMAIN Emitted :
        Emitted[k].is_error =>
            \/ Emitted[k].level \in {"ERROR", "FATAL"}
            \/ Emitted[k].exception_type # None

\* C19 witness: an error by its level alone, and an error by its exception alone
C19_Witness ==
    /\ ParserDone
    /\ \E e \in Entries : e.is_error /\ e.level = "ERROR" /\ e.exception_type = None
    /\ \E e \in Entries : e.is_error /\ e.level = "WARN" /\ e.exception_type # None

-----------------------------------------------------------------------------
\* the stripped lines of ls at the positions S, in the order of the input
Pick(ls, S) ==
    [k \in 1..Cardinality(S) |->
        rstrip(ls[CHOOSE j \in S : Cardinality({i \in S : i < j}) = k - 1])]

\* the lines after line h and before the next line that starts an entry
Body(ls, h) == {j \in (h + 1)..(NextIn(HeadLines(ls), ls, h) - 1) : ~IsBlankLine(ls[j])}

\* the lines of the body of h from its first stack-frame line on
FromFirstFrame(ls, h) ==
    {j \in Body(ls, h) : \E f \in Body(ls, h) : f <= j /\ FrameAt(ls, f)}

FramesAndTabs(ls, h) ==
    {j \in FromFirstFrame(ls, h) : FrameAt(ls, j) \/ TabAt(ls, j)}

-----------------------------------------------------------------------------
\* the position of the first token of the line that is not whitespace
FirstInk(line) == Min({i \in 1..Len(line) : line[i] \notin Whitespace} \cup {Len(line) + 1})

\* the class named by a line that reads 'Caused by: X.Y.ZException ...' after its
\* indentation, None for any other line
CausedByClass(line) == CausedByGroup(line, FirstInk(line))

ExceptionAt(ls, j) == EXCEPTION_PATTERNS(rstrip(ls[j]))

\* C23 as stated: exception_type is first-match-wins within an entry.  One set by
\* the HEAD line is not changed by a later line, and when no line of the entry has
\* set it before, a 'Caused by: X.Y.ZException: ...' line inside the stack trace of
\* the entry (after its first stack-frame line) sets it to X.Y.ZException.
C23_CausedByInTracePromotes ==
    ParserDone =>
        \A e \in Entries :
            LET h == e.line_number
            IN  /\ ExceptionAt(lines, h) # None => e.exception_type = ExceptionAt(lines, h)
                /\ \A j \in FromFirstFrame(lines, h) :
                       (/\ CausedByClass(rstrip(lines[j])) # None
                        /\ \A i \in {h} \cup Body(lines, h) :
                               i < j => ExceptionAt(lines, i) = None)
                          => e.exception_type = CausedByClass(rstrip(lines[j]))

\* the HEAD line of the entry and the lines that went to its message
Scanned(ls, h) == {h} \cup (Body(ls, h) \ FramesAndTabs(ls, h))

\* C23 amended: exception_type is the exception class found in the first of the
\* lines of the entry that are scanned for one, which are the HEAD line and the
\* lines appended to message, and null when none of them holds one.  No later line
\* changes it.  A 'Caused by:' line sets it only as a line of the message (so not
\* when it begins with a tab after a stack-frame line and is taken into the stack
\* trace).
C23_FirstScannedLineWins ==
    \A k \in DOMAIN Emitted :
        LET h == Emitted[k].line_number
            M == {j \in Scanned(lines, h) : j <= line_number /\ ExceptionAt(lines, j) # None}
        IN  Emitted[k].exception_type =
                (IF M = {} THEN None ELSE ExceptionAt(lines, Min(M)))

\* C23 witness: an entry whose HEAD line holds an exception, whose next line holds
\* the same one after Caused by:, and whose last line holds another one
C23_Witness ==
    /\ ParserDone
    /\ lines = <<L_WARN_EXC, L_CAUSED, L_OOM>>
    /\ Len(yielded) = 1
    /\ yielded[1].message = lines
    /\ yielded[1].exception_type = <<"java", ".", "io", ".", "IOException">>

-----------------------------------------------------------------------------
\* the stripped lines at the positions S
TextAt(ls, S) == {rstrip(ls[j]) : j \in S}

Range(f) == {f[i] : i \in DOMAIN f}

\* C24: the lines before the first line that starts an entry are discarded, the
\* lines that match the stack-frame pattern among them too.  While no entry is open
\* nothing has been emitted; the first entry is made of its HEAD line and the lines
\* after it only, it has a stack trace only when a stack-frame line follows its
\* HEAD line, and an input without a line that starts an entry (so every input
\* without a level token) yields no entry.
C24_LinesBeforeFirstHeadDiscarded ==
    /\ (parser_pc = "loop" /\ current_entry = <<>>) =>
           /\ yielded = <<>>
           /\ \A h \in HeadLines(lines) : line_number < h
    /\ ParserDone =>
           IF HeadLines(lines) = {} THEN yielded = <<>>
           ELSE LET h == Min(HeadLines(lines))
                    e == yielded[1]
                IN  /\ e.line_number = h
                    /\ e.message[1] = rstrip(lines[h])
                    /\ Len(e.message) + Len(e.stack_trace) =
                           1 + Cardinality(Body(lines, h))
                    /\ Range(e.message) \subseteq TextAt(lines, {h} \cup Body(lines, h))
                    /\ Range(e.stack_trace) \subseteq TextAt(lines, Body(lines, h))
                    /\ e.has_stack_trace <=> \E j \in Body(lines, h) : FrameAt(lines, j)
    /\ (ParserDone /\ LevelLines(lines) = {}) => yielded = <<>>

\* C24 witness: a stack-frame line and a tab-led line come before the first line
\* that starts an entry, and the entry has no stack trace
C24_Witness ==
    /\ ParserDone
    /\ lines = <<L_FRAME, L_TAB_CAUSED, L_ERROR>>
    /\ Len(yielded) = 1
    /\ ~yielded[1].has_stack_trace
    /\ yielded[1].stack_trace = None
    /\ yielded[1].message = <<L_ERROR>>

\* an input of stack-frame lines alone has been read and has given no entry
C24_WitnessNoHead ==
    /\ ParserDone
    /\ lines = <<L_FRAME, L_FRAME>>
    /\ yielded = <<>>

-----------------------------------------------------------------------------
\* the first category, in the order memory, shuffle, network, serialization,
\* configuration, permission, storage, executor, with a pattern found in the line
FirstCategory(line) ==
    IF ERROR_CATEGORIES("memory", line) THEN "memory"
    ELSE IF ERROR_CATEGORIES("shuffle", line) THEN "shuffle"
    ELSE IF ERROR_CATEGORIES("network", line) THEN "network"
    ELSE IF ERROR_CATEGORIES("serialization", line) THEN "serialization"
    ELSE IF ERROR_CATEGORIES("configuration", line) THEN "configuration"
    ELSE IF ERROR_CATEGORIES("permission", line) THEN "permission"
    ELSE IF ERROR_CATEGORIES("storage", line) THEN "storage"
    ELSE IF ERROR_CATEGORIES("executor", line) THEN "executor"
    ELSE "None"

\* C25: the category of an entry that is an error or a warning by its HEAD line is
\* the first category, in the order memory, shuffle, network, serialization,
\* configuration, permission, storage, executor, with a pattern found in the HEAD
\* line; a line with a memory trigger and an executor trigger is memory.
C25_FirstCategoryInOrder ==
    \A k \in DOMAIN Emitted :
        LET e    == Emitted[k]
            head == rstrip(lines[e.line_number])
        IN  /\ (e.level \in {"ERROR", "FATAL", "WARN"} \/ EXCEPTION_PATTERNS(head) # None)
                   => e.category = FirstCategory(head)
            /\ (ERROR_CATEGORIES("memory", head) /\ ERROR_CATEGORIES("executor", head)
                    /\ e.level \in {"ERROR", "FATAL", "WARN"})
                   => e.category = "memory"

\* C25 witness: an error with a memory and an executor trigger that is memory, and
\* a warning with a shuffle and a network trigger that is shuffle
C25_Witness ==
    /\ ParserDone
    /\ \E e \in Entries :
           /\ e.raw_line = L_OOM_EXECUTOR
           /\ ERROR_CATEGORIES("executor", e.raw_line)
           /\ e.category = "memory"
    /\ \E e \in Entries :
           /\ e.raw_line = L_SHUFFLE_TIMEOUT
           /\ ERROR_CATEGORIES("network", e.raw_line)
           /\ e.category = "shuffle"

-----------------------------------------------------------------------------
\* C26: the category of an entry is null or one of memory, shuffle, network,
\* serialization, configuration, permission, storage, executor; it is not null only
\* if the entry is an error or a warning: an entry that is neither has a null
\* category even when its line holds a trigger.
C26_CategoryOnlyForErrorsAndWarnings ==
    \A k \in DOMAIN Emitted :
        LET e == Emitted[k]
        IN  /\ e.category \in {"None", "memory", "shuffle", "network", "serialization",
                                "configuration", "permission", "storage", "executor"}
            /\ e.category # "None" => (e.is_error \/ e.is_warning)
            /\ (~e.is_error /\ ~e.is_warning) => e.category = "None"

\* C26 witness: an INFO entry whose line holds a memory trigger, category null, and
\* an error entry with a category in the same file
C26_Witness ==
    /\ ParserDone
    /\ \E e \in Entries :
           /\ e.raw_line = L_INFO_OOM
           /\ ERROR_CATEGORIES("memory", e.raw_line)
           /\ ~e.is_error /\ ~e.is_warning
           /\ e.category = "None"
    /\ \E e \in Entries : e.is_error /\ e.category = "memory"

-----------------------------------------------------------------------------
\* the level a level word stands for, in any letter case
Normalized(t) ==
    CASE IgnoreCase(t) = "WARNING" -> "WARN"
      [] IgnoreCase(t) = "SEVERE"  -> "FATAL"
      [] OTHER                     -> IgnoreCase(t)

\* C27: the level of an entry is the normalized leftmost level token of its HEAD
\* line, WARNING as WARN and SEVERE as FATAL in any letter case, and is always one
\* of DEBUG, INFO, WARN, ERROR, FATAL; is_warning holds exactly for WARN, and ERROR
\* or FATAL makes is_error true.
C27_LevelIsNormalizedLevelToken ==
    \A k \in DOMAIN Emitted :
        LET e    == Emitted[k]
            head == rstrip(lines[e.line_number])
        IN  /\ e.level \in {"DEBUG", "INFO", "WARN", "ERROR", "FATAL"}
            /\ e.level = Normalized(head[Min(LevelHits(head))])
            /\ e.is_warning <=> e.level = "WARN"
            /\ e.level \in {"ERROR", "FATAL"} => e.is_error

-----------------------------------------------------------------------------
\* the non-empty lines at or after the first line that starts an entry
Placed(ls) ==
    {j \in 1..Len(ls) : ~IsBlankLine(ls[j]) /\ \E h \in HeadLines(ls) : h <= j}

\* the line that starts an entry at or before line j that is nearest to j
RecentHead(ls, j) == Max({h \in HeadLines(ls) : h <= j})

\* the entry that the line h has started
EntryOf(h) == CHOOSE e \in Entries : e.line_number = h

\* C29: every non-empty line at or after the first line that starts an entry is in
\* exactly one place: it is the raw_line of a new entry, or it is in the message,
\* or in the stack trace, of the entry that the most recent HEAD line has opened.
\* No line is lost, doubled or given to another entry, and the lines of a message
\* and of a stack trace are in the order of the input.
C29_EveryLineInOnePlace ==
    ParserDone =>
        /\ Len(yielded) = Cardinality(HeadLines(lines))
        /\ \A h \in HeadLines(lines) :
               /\ Cardinality({k \in 1..Len(yielded) : yielded[k].line_number = h}) = 1
               /\ EntryOf(h).raw_line = rstrip(lines[h])
        /\ \A h \in HeadLines(lines) :
               LET mine == {j \in Placed(lines) : j # h /\ RecentHead(lines, j) = h}
               IN  \E M \in SUBSET mine :
                       /\ EntryOf(h).message = <<rstrip(lines[h])>> \o Pick(lines, M)
                       /\ EntryOf(h).stack_trace = Pick(lines, mine \ M)

\* C29 witness: a HEAD line, a line that went to the stack trace of its entry and,
\* after it, a line that went to the message of the same entry
C29_Witness ==
    /\ ParserDone
    /\ lines = <<L_ERROR, L_FRAME, L_TEXT>>
    /\ Len(yielded) = 1
    /\ yielded[1].raw_line = L_ERROR
    /\ yielded[1].message = <<L_ERROR, L_TEXT>>
    /\ yielded[1].stack_trace = <<L_FRAME>>

-----------------------------------------------------------------------------
(* The ingestion endpoints (api/v1/ingestion.py) *)

\* the request bodies tried: (file.filename, content)
UploadInputs ==
    {<<FN_LOG, "text">>, <<FN_GZ, "gzip">>, <<FN_GZ, "text">>, <<FN_UPPER, "max">>,
     <<FN_EXE, "text">>, <<FN_LOG, "over">>, <<FN_EMPTY, "text">>}

\* (filename, content) of api_ingest_log: content is a str
ApiInputs == {<<FN_EXE, "text">>, <<FN_LOG, "over">>}

BatchFiles == {<<FN_LOG, "text">>, <<FN_EXE, "text">>}

BatchInputs == [1..MaxBatch -> BatchFiles]

WatchInputs == {<<FN_LOG, "text">>, <<FN_EXE, "text">>}

\* time passes
Tick ==
    /\ clock < MaxClock
    /\ clock' = clock + 1
    /\ UNCHANGED <<disk, log_files, log_entries, tasks, batch>>
    /\ UNCHANGED <<parser_vars, detect_vars, deleting, analysis_vars>>

\* the blob is written, the LogFile row is committed, the parsing job is scheduled
Store(filename, b, source, pc, prev) ==
    LET file_hash   == get_file_hash(b)
        upload_path == UploadPath(clock, file_hash, filename)
        id          == next_id(log_files)
    IN  /\ id <= MaxFiles
        /\ disk' = (upload_path :> b) @@ disk
        /\ log_files' =
               (id :> LogFile(filename, upload_path, len(b), file_hash, source)) @@ log_files
        /\ tasks' = add_task(tasks, id, upload_path, pc, prev)

\* raise HTTPException(status_code=...): nothing is written
Reject(status_code) ==
    /\ status_code \in {400, 413}
    /\ UNCHANGED <<disk, log_files, tasks>>

upload_log_file(filename, b) ==
    /\ IF filename = FN_EMPTY
       THEN Reject(400)
       ELSE IF ~is_valid_extension(filename)
       THEN Reject(400)
       ELSE IF len(b) > max_size
       THEN Reject(413)
       ELSE Store(filename, b, "upload", "queued", 0)
    /\ UNCHANGED <<clock, log_entries, batch>>
    /\ UNCHANGED <<parser_vars, detect_vars, deleting, analysis_vars>>

api_ingest_log(filename, b) ==
    /\ b \in TextBlobs
    /\ Store(filename, b, "api", "queued", 0)
    /\ UNCHANGED <<clock, log_entries, batch>>
    /\ UNCHANGED <<parser_vars, detect_vars, deleting, analysis_vars>>

\* upload_multiple_files: the request arrives
BatchStart(files) ==
    /\ batch.phase = "idle"
    /\ batch' = [phase |-> "running", request |-> files, files |-> files,
                 uploaded |-> <<>>, failed |-> <<>>, last |-> 0]
    /\ UNCHANGED <<clock, disk, log_files, log_entries, tasks>>
    /\ UNCHANGED <<parser_vars, detect_vars, deleting, analysis_vars>>

\* a failed file that is dropped without a word
BatchFail_Silent(filename, error) ==
    /\ batch' = [batch EXCEPT !.files = Tail(@)]
    /\ UNCHANGED <<disk, log_files, tasks>>

\* failed.append({"filename": ..., "error": ...}); continue
BatchFail(filename, error) ==
    /\ batch' = [batch EXCEPT !.files = Tail(@),
                              !.failed = Append(@, [filename |-> filename, error |-> error])]
    /\ UNCHANGED <<disk, log_files, tasks>>

\* upload_multiple_files: one iteration of the loop over the files
BatchFile ==
    /\ batch.phase = "running"
    /\ batch.files # <<>>
    /\ LET filename == Head(batch.files)[1]
           b        == Head(batch.files)[2]
       IN  IF filename = FN_EMPTY
           THEN BatchFail(<<"unknown">>, "No filename")
           ELSE IF ~is_valid_extension(filename)
           THEN BatchFail(filename, "Unsupported file type")
           ELSE IF len(b) > max_size
           THEN BatchFail(filename, "File too large")
           ELSE /\ Store(filename, b, "upload", "held", batch.last)
                /\ batch' = [batch EXCEPT !.files = Tail(@),
                                          !.uploaded =
                                              Append(@, [file_id  |-> next_id(log_files),
                                                         filename |-> filename]),
                                          !.last = Len(tasks) + 1]
    /\ UNCHANGED <<clock, log_entries>>
    /\ UNCHANGED <<parser_vars, detect_vars, deleting, analysis_vars>>

\* upload_multiple_files: an iteration in which writing the blob (exc = "OSError")
\* or committing the row (exc = "OperationalError") raises; the handler of the loop
\* puts the file on the failed list and the loop goes on
BatchFileRaises(exc) ==
    /\ batch.phase = "running"
    /\ batch.files # <<>>
    /\ LET filename == Head(batch.files)[1]
           b        == Head(batch.files)[2]
       IN  /\ filename # FN_EMPTY
           /\ is_valid_extension(filename)
           /\ len(b) <= max_size
           /\ batch' = [batch EXCEPT !.files = Tail(@),
                                     !.failed = Append(@, [filename |-> filename,
                                                           error    |-> exc])]
           /\ disk' = IF exc = "OSError" THEN disk
                      ELSE (UploadPath(clock, get_file_hash(b), filename) :> b) @@ disk
    /\ UNCHANGED <<clock, log_files, log_entries, tasks>>
    /\ UNCHANGED <<parser_vars, detect_vars, deleting, analysis_vars>>

\* upload_multiple_files returns; the background tasks of the request start to run,
\* one after the other
BatchEnd ==
    /\ batch.phase = "running"
    /\ batch.files = <<>>
    /\ tasks' = [t \in DOMAIN tasks |->
                    IF tasks[t].pc = "held" THEN [tasks[t] EXCEPT !.pc = "queued"]
                    ELSE tasks[t]]
    /\ batch' = [phase |-> "idle", request |-> <<>>, files |-> <<>>,
                 uploaded |-> <<>>, failed |-> <<>>, last |-> 0]
    /\ UNCHANGED <<clock, disk, log_files, log_entries>>
    /\ UNCHANGED <<parser_vars, detect_vars, deleting, analysis_vars>>

-----------------------------------------------------------------------------
(* The folder watcher (services/ingestion.py) *)

\* IngestionService.ingest_file
ingest_file(rows, d, path) ==
    IF path \notin DOMAIN d
    THEN rows
    ELSE (next_id(rows) :> LogFile(path.name, path, len(d[path]), None, "folder_watch"))
             @@ rows

\* LogFileHandler.on_created, for a file that appears in the watch directory.  The
\* handler runs on the observer's thread: asyncio.create_task either finds the loop
\* and ingest_file runs, or raises and nothing is ingested.
on_created(name, b, started) ==
    LET path == WatchPath(name)
    IN  /\ path \notin DOMAIN disk
        /\ disk' = (path :> b) @@ disk
        /\ IF started /\ (\E i \in DOMAIN supported_extensions_list :
                              lower(path_suffix(path)) = supported_extensions_list[i])
           THEN /\ next_id(log_files) <= MaxFiles
                /\ log_files' = ingest_file(log_files, disk', path)
           ELSE UNCHANGED log_files
        /\ UNCHANGED <<clock, log_entries, tasks, batch>>
        /\ UNCHANGED <<parser_vars, detect_vars, deleting, analysis_vars>>

\* self.watch_dir.glob(f"*{ext}")
glob(d, ext) ==
    {path \in DOMAIN d : /\ path.dir = log_watch_dir
                         /\ Len(path.name) >= 2
                         /\ "." \o path.name[Len(path.name)] = ext}

\* the orders in which scan_watch_folder may meet the files: extension by extension,
\* the files of one extension in the order of the directory listing
ScanOrders(d) ==
    LET found == UNION {glob(d, supported_extensions_list[i]) :
                            i \in DOMAIN supported_extensions_list}
        rank(path) == CHOOSE i \in DOMAIN supported_extensions_list :
                          path \in glob(d, supported_extensions_list[i])
    IN  {ps \in [1..Cardinality(found) -> found] :
            /\ \A i, j \in DOMAIN ps : i < j => ps[i] # ps[j]
            /\ \A i, j \in DOMAIN ps : i < j => rank(ps[i]) <= rank(ps[j])}

RECURSIVE ingest_all(_, _, _)
ingest_all(rows, d, ps) ==
    IF ps = <<>> THEN rows ELSE ingest_all(ingest_file(rows, d, Head(ps)), d, Tail(ps))

\* IngestionService.scan_watch_folder
scan_watch_folder ==
    \E ps \in ScanOrders(disk) :
        /\ ps # <<>>
        /\ next_id(log_files) + Len(ps) - 1 <= MaxFiles
        /\ log_files' = ingest_all(log_files, disk, ps)
        /\ UNCHANGED <<clock, disk, log_entries, tasks, batch>>
        /\ UNCHANGED <<parser_vars, detect_vars, deleting, analysis_vars>>


-----------------------------------------------------------------------------
(* The parsing job: parse_log_file_background and LogParserService.parse_and_store. *)
(* A task's session holds what it has added (new) and set (dirty) until a commit    *)
(* writes it, all of it in one transaction, or a failed commit rolls it back.       *)

\* the background tasks of one request run in the order they were added
Runnable(t) ==
    /\ tasks[t].pc = "queued"
    /\ tasks[t].prev # 0 => tasks[tasks[t].prev].pc \in {"done", "failed"}

\* an UPDATE that leaves is_processed and processed_at to a later transaction: what
\* the atomicity of the commit excludes
flush_file_FlagLater(row, task, error_message) ==
    [row EXCEPT !.error_message = IF error_message # "None" THEN error_message ELSE @]

\* an UPDATE that sets is_processed and leaves processed_at as it was
flush_file_NoTime(row, task, error_message) ==
    [row EXCEPT !.is_processed  = IF task.dirty THEN TRUE ELSE @,
                !.error_message = IF error_message # "None" THEN error_message ELSE @]

\* the UPDATE of the LogFile row a commit issues
flush_file(row, task, error_message) ==
    [row EXCEPT !.is_processed  = IF task.dirty THEN TRUE ELSE @,
                !.processed_at  = IF task.dirty THEN <<task.now>> ELSE @,
                !.error_message = IF error_message # "None" THEN error_message ELSE @]

\* the INSERTs of the LogEntry rows a commit issues
flush_entries(rows, task) == rows \o task.new

\* a failed commit that leaves the session as it was: the handler's commit would
\* then write the entries and the flag together with the error
rollback_KeepsPending(task) == task

\* a failed commit after which the attribute changes stay in the session
rollback_KeepsDirty(task) == [task EXCEPT !.new = <<>>]

\* the session after a commit has failed: pending objects are expunged, attribute
\* changes are discarded
rollback(task) == [task EXCEPT !.new = <<>>, !.dirty = FALSE]

\* await db.commit(): the rows of the session are written in one transaction
commit(task, error_message) ==
    /\ log_files' = [log_files EXCEPT
                        ![task.log_file_id] = flush_file(@, task, error_message)]
    /\ log_entries' = [log_entries EXCEPT
                        ![task.log_file_id] = flush_entries(@, task)]

\* parse_and_store: select the LogFile, ValueError when there is none
JobLoad(t) ==
    /\ Runnable(t)
    /\ tasks' = [tasks EXCEPT ![t] =
                    IF @.log_file_id \in DOMAIN log_files
                    THEN [@ EXCEPT !.pc = "loaded"]
                    ELSE [@ EXCEPT !.pc = "except", !.exc = "ValueError"]]
    /\ UNCHANGED <<clock, disk, log_files, log_entries, batch>>
    /\ UNCHANGED <<parser_vars, detect_vars, deleting, analysis_vars>>

\* parse_and_store: read the file, parse it, add the entries to the session and set
\* is_processed and processed_at; an exception of the read goes to the handler
JobRead(t) ==
    /\ tasks[t].pc = "loaded"
    /\ LET read == _read_file(disk, tasks[t].file_path)
       IN  tasks' = [tasks EXCEPT ![t] =
                        IF read.ok
                        THEN [@ EXCEPT !.pc = "flush",
                                       !.new = _parse_lines(read.text),
                                       !.dirty = TRUE,
                                       !.now = clock]
                        ELSE [@ EXCEPT !.pc = "except", !.exc = read.error]]
    /\ UNCHANGED <<clock, disk, log_files, log_entries, batch>>
    /\ UNCHANGED <<parser_vars, detect_vars, deleting, analysis_vars>>

\* parse_and_store: the commit succeeds
JobCommit(t) ==
    /\ tasks[t].pc = "flush"
    /\ tasks[t].log_file_id \in DOMAIN log_files
    /\ commit(tasks[t], "None")
    /\ tasks' = [tasks EXCEPT ![t] = [@ EXCEPT !.pc = "done", !.new = <<>>, !.dirty = FALSE]]
    /\ UNCHANGED <<clock, disk, batch>>
    /\ UNCHANGED <<parser_vars, detect_vars, deleting, analysis_vars>>

\* parse_and_store: the commit raises; nothing of the transaction is written
JobCommitFails(t) ==
    /\ tasks[t].pc = "flush"
    /\ tasks' = [tasks EXCEPT ![t] =
                    [rollback(@) EXCEPT !.pc = "except", !.exc = "OperationalError"]]
    /\ UNCHANGED <<clock, disk, log_files, log_entries, batch>>
    /\ UNCHANGED <<parser_vars, detect_vars, deleting, analysis_vars>>

\* parse_log_file_background, except: select the LogFile again
HandlerSelect(t) ==
    /\ tasks[t].pc = "except"
    /\ tasks' = [tasks EXCEPT ![t] =
                    IF @.log_file_id \in DOMAIN log_files
                    THEN [@ EXCEPT !.pc = "handler"]
                    ELSE [@ EXCEPT !.pc = "failed"]]
    /\ UNCHANGED <<clock, disk, log_files, log_entries, batch>>
    /\ UNCHANGED <<parser_vars, detect_vars, deleting, analysis_vars>>

\* parse_log_file_background, except: log_file.error_message = str(e); commit
HandlerCommit(t) ==
    /\ tasks[t].pc = "handler"
    /\ IF tasks[t].log_file_id \in DOMAIN log_files
       THEN commit(tasks[t], tasks[t].exc)
       ELSE UNCHANGED <<log_files, log_entries>>
    /\ tasks' = [tasks EXCEPT ![t] = [@ EXCEPT !.pc = "failed", !.new = <<>>, !.dirty = FALSE]]
    /\ UNCHANGED <<clock, disk, batch>>
    /\ UNCHANGED <<parser_vars, detect_vars, deleting, analysis_vars>>

-----------------------------------------------------------------------------
(* The service *)

Init ==
    /\ PipelineStart
    /\ lines = <<>>
    /\ line_number = 0
    /\ current_entry = ParserStart.current_entry
    /\ stack_trace_lines = ParserStart.stack_trace_lines
    /\ collecting_stack_trace = ParserStart.collecting_stack_trace
    /\ yielded = ParserStart.yielded
    /\ parser_pc = "off"
    /\ DetectStart

Next ==
    \/ Tick
    \/ \E in \in UploadInputs : upload_log_file(in[1], in[2])
    \/ \E in \in ApiInputs : api_ingest_log(in[1], in[2])
    \/ \E files \in BatchInputs : BatchStart(files)
    \/ BatchFile
    \/ BatchEnd
    \/ \E in \in WatchInputs : \E started \in BOOLEAN : on_created(in[1], in[2], started)
    \/ scan_watch_folder
    \/ \E t \in DOMAIN tasks : JobLoad(t)
    \/ \E t \in DOMAIN tasks : JobRead(t)
    \/ \E t \in DOMAIN tasks : JobCommit(t)
    \/ \E t \in DOMAIN tasks : JobCommitFails(t)
    \/ \E t \in DOMAIN tasks : HandlerSelect(t)
    \/ \E t \in DOMAIN tasks : HandlerCommit(t)

Spec == Init /\ [][Next]_vars

-----------------------------------------------------------------------------
(* delete_log_file (api/v1/logs.py) beside the uploads and the parsing jobs. *)
(* The database is the SQLite file of the default database_url: foreign keys  *)
(* are not enforced, and a new row takes the largest id in use plus one, which *)
(* can be the id of a row deleted before.                                      *)

remove(d, path) == [p \in DOMAIN d \ {path} |-> d[p]]

\* select the LogFile, 404 when there is none; os.remove(log_file.file_path) when
\* the path exists
DeleteSelect(file_id) ==
    /\ deleting = None
    /\ IF file_id \in DOMAIN log_files
       THEN /\ deleting' = <<[log_file_id |-> file_id, pc |-> "selected", entries |-> 0,
                              analyses |-> 0]>>
            /\ disk' = remove(disk, log_files[file_id].file_path)
       ELSE UNCHANGED <<deleting, disk>>
    /\ UNCHANGED <<clock, log_files, log_entries, tasks, batch>>
    /\ UNCHANGED <<parser_vars, detect_vars, analysis_vars>>

\* await db.delete(log_file): the delete cascade loads log_file.entries and
\* log_file.analyses and marks the rows it finds
DeleteCascade ==
    /\ deleting # None
    /\ deleting[1].pc = "selected"
    /\ deleting' = <<[deleting[1] EXCEPT
                         !.pc = "marked",
                         !.entries = Len(log_entries[deleting[1].log_file_id]),
                         !.analyses = Len(log_analyses[deleting[1].log_file_id])]>>
    /\ UNCHANGED <<clock, disk, log_files, log_entries, tasks, batch>>
    /\ UNCHANGED <<parser_vars, detect_vars, analysis_vars>>

\* the DELETEs of the LogEntry rows the cascade has marked
delete_entries(rows, marked) == SubSeq(rows, marked + 1, Len(rows))

\* await db.commit(): the marked LogEntry and LogAnalysis rows and the LogFile row
\* are deleted
DeleteCommit ==
    /\ deleting # None
    /\ deleting[1].pc = "marked"
    /\ log_entries' = [log_entries EXCEPT ![deleting[1].log_file_id] =
                           delete_entries(@, deleting[1].entries)]
    /\ log_analyses' = [log_analyses EXCEPT ![deleting[1].log_file_id] =
                            delete_entries(@, deleting[1].analyses)]
    /\ log_files' = remove(log_files, deleting[1].log_file_id)
    /\ deleting' = None
    /\ UNCHANGED <<clock, disk, tasks, batch, analysis, provider_calls>>
    /\ UNCHANGED <<parser_vars, detect_vars>>

DeleteUploads == {<<FN_LOG, "text">>, <<FN_GZ, "gzip">>}

DeleteNext ==
    \/ /\ Len(tasks) < MaxTasks
       /\ \E in \in DeleteUploads : upload_log_file(in[1], in[2])
    \/ \E file_id \in FileIds : DeleteSelect(file_id)
    \/ DeleteCascade
    \/ DeleteCommit
    \/ \E t \in DOMAIN tasks : JobLoad(t)
    \/ \E t \in DOMAIN tasks : JobRead(t)
    \/ \E t \in DOMAIN tasks : JobCommit(t)
    \/ \E t \in DOMAIN tasks : JobCommitFails(t)
    \/ \E t \in DOMAIN tasks : HandlerSelect(t)
    \/ \E t \in DOMAIN tasks : HandlerCommit(t)

DeleteSpec == Init /\ [][DeleteNext]_vars

-----------------------------------------------------------------------------
(* create_analysis (api/v1/analysis.py) beside the uploads, the parsing jobs *)
(* and delete_log_file, on the same database                                 *)

\* the request as it returns with a status code
Respond(request, status_code) ==
    [request EXCEPT !.pc = "returned", !.status_code = status_code]

\* select the LogFile: 404 when there is none, 400 when it is not processed
AnalysisSelect(file_id) ==
    /\ analysis.pc \in {"idle", "returned"}
    /\ analysis.count < MaxAnalyses
    /\ LET request == [log_file_id |-> file_id, pc |-> "analyzing", status_code |-> 0,
                       count |-> analysis.count + 1]
       IN  analysis' =
               IF file_id \notin DOMAIN log_files THEN Respond(request, 404)
               ELSE IF ~log_files[file_id].is_processed THEN Respond(request, 400)
               ELSE request
    /\ UNCHANGED <<log_analyses, provider_calls>>
    /\ UNCHANGED <<clock, disk, log_files, log_entries, tasks, batch, deleting>>
    /\ UNCHANGED <<parser_vars, detect_vars>>

\* LLMService.analyze_logs: select the entries of the file; without entries a fixed
\* result and no call of the provider; otherwise provider.generate, whose exception
\* create_analysis answers with 503
analyze_logs(raises) ==
    /\ analysis.pc = "analyzing"
    /\ IF log_entries[analysis.log_file_id] = <<>>
       THEN /\ analysis' = [analysis EXCEPT !.pc = "generated"]
            /\ UNCHANGED provider_calls
       ELSE /\ provider_calls' = provider_calls + 1
            /\ analysis' = IF raises THEN Respond(analysis, 503)
                           ELSE [analysis EXCEPT !.pc = "generated"]
    /\ UNCHANGED log_analyses
    /\ UNCHANGED <<clock, disk, log_files, log_entries, tasks, batch, deleting>>
    /\ UNCHANGED <<parser_vars, detect_vars>>

\* db.add(analysis); await db.commit(): the LogAnalysis row is inserted, 201
AnalysisCommit ==
    /\ analysis.pc = "generated"
    /\ log_analyses' = [log_analyses EXCEPT ![analysis.log_file_id] =
                            Append(@, [log_file_id |-> analysis.log_file_id])]
    /\ analysis' = Respond(analysis, 201)
    /\ UNCHANGED provider_calls
    /\ UNCHANGED <<clock, disk, log_files, log_entries, tasks, batch, deleting>>
    /\ UNCHANGED <<parser_vars, detect_vars>>

AnalysisNext ==
    \/ /\ Len(tasks) < MaxTasks
       /\ \E in \in DeleteUploads : upload_log_file(in[1], in[2])
    \/ \E t \in DOMAIN tasks : JobLoad(t)
    \/ \E t \in DOMAIN tasks : JobRead(t)
    \/ \E t \in DOMAIN tasks : JobCommit(t)
    \/ \E t \in DOMAIN tasks : JobCommitFails(t)
    \/ \E t \in DOMAIN tasks : HandlerSelect(t)
    \/ \E t \in DOMAIN tasks : HandlerCommit(t)
    \/ \E file_id \in FileIds : AnalysisSelect(file_id)
    \/ \E raises \in BOOLEAN : analyze_logs(raises)
    \/ AnalysisCommit
    \/ \E file_id \in FileIds : DeleteSelect(file_id)
    \/ DeleteCascade
    \/ DeleteCommit

AnalysisSpec == Init /\ [][AnalysisNext]_vars

-----------------------------------------------------------------------------
(* The batch endpoint on its own, with every kind of file a request can carry *)
(* and with the faults of writing and recording, followed by the parsing jobs *)
(* it schedules *)

BatchRequestFiles ==
    {<<FN_LOG, "text">>, <<FN_EXE, "text">>, <<FN_EMPTY, "text">>, <<FN_LOG, "over">>}

BatchRequests == [1..MaxBatch -> BatchRequestFiles]

BatchNext ==
    \/ Tick
    \/ \E files \in BatchRequests : BatchStart(files)
    \/ BatchFile
    \/ \E exc \in {"OSError", "OperationalError"} : BatchFileRaises(exc)
    \/ BatchEnd
    \/ \E t \in DOMAIN tasks : JobLoad(t)
    \/ \E t \in DOMAIN tasks : JobRead(t)
    \/ \E t \in DOMAIN tasks : JobCommit(t)
    \/ \E t \in DOMAIN tasks : JobCommitFails(t)
    \/ \E t \in DOMAIN tasks : HandlerSelect(t)
    \/ \E t \in DOMAIN tasks : HandlerCommit(t)

BatchSpec == Init /\ [][BatchNext]_vars


-----------------------------------------------------------------------------
(* Claims about the ingestion pipeline, checked under Spec *)

PushSources == {"upload", "api"}

TasksOf(id) == {t \in DOMAIN tasks : tasks[t].log_file_id = id}

\* the entries the assembler emits for the file of a row
EmittedFor(row) == _parse_lines(_read_file(disk, row.file_path).text)

C6_WatchedFilesEnterPipeline ==
    \A id \in DOMAIN log_files :
        log_files[id].source = "folder_watch" =>
            /\ log_files[id].file_hash # None
            /\ TasksOf(id) # {}

\* C7, as claimed: content with a given SHA-256 hash is parsed and persisted at most
\* once, so no two LogFile rows with the same hash are both processed.
C7_HashProcessedOnce ==
    \A i, j \in DOMAIN log_files :
        (/\ i # j
         /\ log_files[i].file_hash # None
         /\ log_files[i].file_hash = log_files[j].file_hash)
            => ~(log_files[i].is_processed /\ log_files[j].is_processed)

\* C7, as the code has it: every LogFile row has at most one parsing job, and a job
\* that has persisted the entries of its row never runs or persists again.  There is
\* no such bound per content hash.
C7_RowParsedOnce ==
    /\ [](\A id \in DOMAIN log_files : Cardinality(TasksOf(id)) <= 1)
    /\ [][\A t \in DOMAIN tasks :
            tasks[t].pc = "done" =>
                /\ tasks'[t] = tasks[t]
                /\ log_entries'[tasks[t].log_file_id] = log_entries[tasks[t].log_file_id]]_vars

\* the same bytes ingested twice, parsed twice, persisted under two rows
C7_Witness ==
    \E i, j \in DOMAIN log_files :
        /\ i # j
        /\ log_files[i].file_hash # None
        /\ log_files[i].file_hash = log_files[j].file_hash
        /\ log_files[i].is_processed /\ log_files[j].is_processed
        /\ log_entries[i] # <<>> /\ log_entries[i] = log_entries[j]
        /\ \A id \in {i, j} : \E t \in TasksOf(id) : tasks[t].pc = "done"

\* C8: no push ingestion path stores anything for a filename whose lower-cased
\* extension is not supported: no LogFile row of source upload or api, no blob of
\* the upload directory and no parsing job has such a name.
C8_UnsupportedExtensionRejected ==
    /\ \A id \in DOMAIN log_files :
           log_files[id].source \in PushSources =>
               is_valid_extension(log_files[id].original_filename)
    /\ \A path \in DOMAIN disk :
           path.dir = log_upload_dir => is_valid_extension(path.name)
    /\ \A t \in DOMAIN tasks : is_valid_extension(tasks[t].file_path.name)

\* C9: no push ingestion path stores anything for content of more than
\* max_upload_size_mb * 1024 * 1024 bytes: no LogFile row of source upload or api and
\* no blob of the upload directory is larger, and no parsing job is scheduled for one.
C9_OversizeRejected ==
    /\ \A id \in DOMAIN log_files :
           log_files[id].source \in PushSources => log_files[id].file_size <= max_size
    /\ \A path \in DOMAIN disk :
           path.dir = log_upload_dir => len(disk[path]) <= max_size
    /\ \A t \in DOMAIN tasks :
           tasks[t].file_path \in DOMAIN disk => len(disk[tasks[t].file_path]) <= max_size


\* C12: no two LogFile rows of a push ingestion share one stored path: the stored
\* names YYYYMMDD_HHMMSS_<hash8>_<original> of two ingestions always differ.
C12_StoredPathsUnique ==
    \A i, j \in DOMAIN log_files :
        (/\ i # j
         /\ log_files[i].source \in PushSources
         /\ log_files[j].source \in PushSources)
            => log_files[i].file_path # log_files[j].file_path

Visited == Len(batch.request) - Len(batch.files)

ValidFile(f) == f[1] # FN_EMPTY /\ is_valid_extension(f[1]) /\ len(f[2]) <= max_size

\* the entry of the uploaded list is a LogFile row with its blob and its job
Recorded(u, f) ==
    /\ u.filename = f[1]
    /\ u.file_id \in DOMAIN log_files
    /\ log_files[u.file_id].original_filename = f[1]
    /\ log_files[u.file_id].file_path \in DOMAIN disk
    /\ disk[log_files[u.file_id].file_path] = f[2]
    /\ \E t \in DOMAIN tasks :
           /\ tasks[t].log_file_id = u.file_id
           /\ tasks[t].file_path = log_files[u.file_id].file_path
           /\ tasks[t].pc = "held"

\* the entry of the failed list names the file and why it failed
Refused(x, f) ==
    IF f[1] = FN_EMPTY THEN x = [filename |-> <<"unknown">>, error |-> "No filename"]
    ELSE /\ x.filename = f[1]
         /\ x.error = IF ~is_valid_extension(f[1]) THEN "Unsupported file type"
                      ELSE IF len(f[2]) > max_size THEN "File too large"
                      ELSE x.error
         /\ ValidFile(f) => x.error \in {"OSError", "OperationalError"}

C15_EntriesBelongToLogFile ==
    \A id \in FileIds : log_entries[id] # <<>> => id \in DOMAIN log_files

\* C15, its last part: the parsing job of a deleted file writes no LogFile row.
C15_JobLeavesOtherFilesAlone ==
    [][\A t \in DOMAIN tasks :
          (/\ tasks[t].pc \in {"flush", "handler"}
           /\ tasks'[t].pc \in {"done", "failed"}
           /\ tasks[t].log_file_id \in DOMAIN log_files
           /\ log_files'[tasks[t].log_file_id] # log_files[tasks[t].log_file_id])
              => log_files[tasks[t].log_file_id].file_path = tasks[t].file_path]_vars

\* C28: in every persisted state no LogFile has both is_processed true and an
\* error_message, and a LogFile whose is_processed is true keeps it true: the
\* processed and the failed outcome of a parsing job exclude each other and are
\* final.
C28_ProcessedXorFailed ==
    /\ [](\A id \in DOMAIN log_files :
            ~(log_files[id].is_processed /\ log_files[id].error_message # "None"))
    /\ [][\A id \in DOMAIN log_files \cap DOMAIN log_files' :
            /\ log_files[id].is_processed => log_files'[id].is_processed
            /\ log_files[id].error_message # "None" =>
                   /\ log_files'[id].error_message = log_files[id].error_message
                   /\ ~log_files'[id].is_processed]_vars

\* a step of create_analysis that selects a LogFile
Selects == analysis.pc \in {"idle", "returned"} /\ analysis' # analysis

\* a step that inserts a LogAnalysis row for the LogFile id
Inserts(id) == Len(log_analyses'[id]) > Len(log_analyses[id])

\* C30: an analysis is created only for a LogFile that exists and is processed.
\* create_analysis on a LogFile that is not processed returns 400, calls no provider
\* and stores no LogAnalysis row; the provider is called and a row is stored only
\* for a request that has found its LogFile processed; and when a LogAnalysis row
\* is stored the LogFile it refers to exists and is processed.
C30_AnalysisOnlyForProcessed ==
    /\ [][\A id \in FileIds :
            (Selects /\ analysis'.log_file_id = id /\ id \in DOMAIN log_files
                /\ ~log_files[id].is_processed)
               => /\ analysis'.pc = "returned" /\ analysis'.status_code = 400
                  /\ UNCHANGED <<provider_calls, log_analyses>>]_vars
    /\ [][(provider_calls' # provider_calls \/ \E id \in FileIds : Inserts(id))
               => analysis.pc \in {"analyzing", "generated"}]_vars
    /\ [][\A id \in FileIds :
            Inserts(id) => id \in DOMAIN log_files /\ log_files[id].is_processed]_vars

====
